---- MODULE Spec2Model ----
(***************************************************************************)
(* Model of the mempool scheduler of the proxy                             *)
(* (proxy/mempool/mempool_schedule.py, proxy/mempool/sorted_queue.py).     *)
(*                                                                         *)
(* The three classes MPTxRequestDict, MPSenderTxPool and MPTxSchedule are  *)
(* translated method by method.  A method that mutates objects becomes an  *)
(* operator from a mempool record to a mempool record; the record has a    *)
(* field err that holds the name of the Python exception raised so far     *)
(* ("" when none): once err is set the remaining statements of the call    *)
(* are skipped and the mutations already done stay, as in Python.          *)
(***************************************************************************)
EXTENDS Integers, Sequences, FiniteSets, TLC

\* ---------------------------------------------------------------- bounds
MaxSender == 2
MaxGasPrice == 2
\* the wide input set: every sender, short nonce range
WideMaxNonce == 1
WideMaxStateTxCnt == 2
WideCapacity == 3
\* the deep input set: one sender, long nonce range
DeepMaxNonce == 4
DeepMaxStateTxCnt == 5
DeepCapacity == 5
\* capacity_high_watermark, a float in the code, as a percentage
HighWatermarkPct == 90

Senders == 1..MaxSender
GasPrices == 1..MaxGasPrice

\* A tx request.  The hash (sig) of a tx is a function of its content, so the
\* record itself stands for the sig; salt stands for the rest of the content
\* (two txs of one sender with the same nonce and gas price differ in it).
Tx(s, n, g, x) == [sender |-> s, nonce |-> n, gas_price |-> g, salt |-> x]
NoTx == Tx(0, 0, 0, 0)
None == -1

WideTxs == {Tx(s, n, g, 0) : s \in Senders, n \in 0..WideMaxNonce, g \in GasPrices}
WideCnts == 0..WideMaxStateTxCnt
DeepTxs == {Tx(1, n, 1, 0) : n \in 0..DeepMaxNonce}
DeepCnts == 0..DeepMaxStateTxCnt

\* ------------------------------------------------------- sorted_queue.py
RECURSIVE bisect_loop(_, _, _, _)
bisect_loop(keys, x, lo, hi) ==
    IF lo < hi
    THEN IF keys[((lo + hi) \div 2) + 1] < x
         THEN bisect_loop(keys, x, ((lo + hi) \div 2) + 1, hi)
         ELSE bisect_loop(keys, x, lo, (lo + hi) \div 2)
    ELSE lo

\* 0-based insertion point, as Python's bisect.bisect_left over the lt keys
bisect_left(keys, x) == bisect_loop(keys, x, 0, Len(keys))

\* the lt keys of the queue; key is lt_key_func as a function of the items
KeysOf(q, key) == [i \in 1..Len(q) |-> key[q[i]]]

\* the items lt_key_func is applied to by a call for item on the queue
Items(q, item) == {q[i] : i \in 1..Len(q)} \cup {item}

RECURSIVE find_from_pos(_, _, _, _)
find_from_pos(q, key, index, item) ==
    IF index >= Len(q) THEN None
    ELSE IF key[item] # key[q[index + 1]] THEN None
    ELSE IF q[index + 1] = item THEN index
    ELSE find_from_pos(q, key, index + 1, item)

\* 0-based index of item, or None
SQ_find(q, key, item) ==
    find_from_pos(q, key, bisect_left(KeysOf(q, key), key[item]), item)

SQ_contains(q, key, item) == SQ_find(q, key, item) # None

InsertAt(q, pos, item) ==
    [i \in 1..(Len(q) + 1) |->
        IF i <= pos THEN q[i] ELSE IF i = pos + 1 THEN item ELSE q[i - 1]]

RemoveAt(q, pos) ==
    [i \in 1..(Len(q) - 1) |-> IF i <= pos THEN q[i] ELSE q[i + 1]]

\* add / pop return a record: ok = FALSE when the assertion of the method fails
SQ_add_at(q, key, item, pos) ==
    IF find_from_pos(q, key, pos, item) # None
    THEN [ok |-> FALSE, q |-> q]
    ELSE [ok |-> TRUE, q |-> InsertAt(q, pos, item)]

SQ_add(q, key, item) ==
    SQ_add_at(q, key, item, bisect_left(KeysOf(q, key), key[item]))

SQ_pop_at(q, index) ==
    IF index = None THEN [ok |-> FALSE, q |-> q]
    ELSE [ok |-> TRUE, q |-> RemoveAt(q, index)]

SQ_pop(q, key, item) ==
    IF Len(q) = 0 THEN [ok |-> FALSE, q |-> q]
    ELSE SQ_pop_at(q, SQ_find(q, key, item))

\* pop(self._top_index): the last element
SQ_pop_top(q) ==
    IF Len(q) = 0 THEN [ok |-> FALSE, q |-> q]
    ELSE [ok |-> TRUE, q |-> SubSeq(q, 1, Len(q) - 1)]

\* queue[self._top_index]
SQ_top(q) == q[Len(q)]

\* ------------------------------------------------------ exceptions
Raise(m, e) == [m EXCEPT !.err = e]
AssertionError == "AssertionError"
IndexError == "IndexError"
KeyError == "KeyError"

\* ------------------------------------------------ class MPTxRequestDict
\* lt_key_func of both gas price queues: lambda a: -a.gas_price
GasPriceKey(q, tx) == [a \in Items(q, tx) |-> 0 - a.gas_price]

\* _sender_nonce: the key "sender:nonce"
sender_nonce(tx) == <<tx.sender, tx.nonce>>

\* the result r of an add or a pop on a queue becomes the queue, or the
\* AssertionError of the queue method is raised
SetPq(m, r) == IF r.ok THEN [m EXCEPT !.pq = r.q] ELSE Raise(m, AssertionError)
SetGq(m, r) == IF r.ok THEN [m EXCEPT !.gq = r.q] ELSE Raise(m, AssertionError)

\* _tx_gas_price_queue.add(tx) and .pop(tx), _tx_gapped_gas_price_queue likewise
PqAdd(m, tx) == IF m.err # "" THEN m ELSE SetPq(m, SQ_add(m.pq, GasPriceKey(m.pq, tx), tx))
PqPop(m, tx) == IF m.err # "" THEN m ELSE SetPq(m, SQ_pop(m.pq, GasPriceKey(m.pq, tx), tx))
GqAdd(m, tx) == IF m.err # "" THEN m ELSE SetGq(m, SQ_add(m.gq, GasPriceKey(m.gq, tx), tx))
GqPop(m, tx) == IF m.err # "" THEN m ELSE SetGq(m, SQ_pop(m.gq, GasPriceKey(m.gq, tx), tx))

\* dst.add(src.pop(tx))
move_tx(m, to_pending, tx) ==
    IF to_pending THEN PqAdd(GqPop(m, tx), tx) ELSE GqAdd(PqPop(m, tx), tx)

RECURSIVE move_between_gas_price_queues(_, _, _, _)
\* to_pending = TRUE: src is the gapped queue and dst the pending queue
\* (queue_tx); FALSE: the other way round (dequeue_tx)
move_between_gas_price_queues(m, to_pending, sender_address, nonce) ==
    IF m.err # "" THEN m
    ELSE IF <<sender_address, nonce>> \notin DOMAIN m.sn THEN m
    ELSE move_between_gas_price_queues(
             move_tx(m, to_pending, m.sn[<<sender_address, nonce>>]),
             to_pending, sender_address, nonce + 1)

queue_tx(m, sender_address, start_nonce) ==
    move_between_gas_price_queues(m, TRUE, sender_address, start_nonce)

dequeue_tx(m, sender_address, start_nonce) ==
    move_between_gas_price_queues(m, FALSE, sender_address, start_nonce)

\* the closing assertion of MPTxRequestDict.add_tx
DictSizesOk(m) ==
    /\ Cardinality(m.hash) = Cardinality(DOMAIN m.sn)
    /\ Cardinality(DOMAIN m.sn) >= Len(m.pq) + Len(m.gq)

AssertDictSizes(m) ==
    IF m.err # "" THEN m
    ELSE IF ~DictSizesOk(m) THEN Raise(m, AssertionError)
    ELSE m

\* _tx_hash_dict[tx.sig] = tx; _tx_sender_nonce_dict[sender_nonce] = tx
DictInsert(m, tx) ==
    [m EXCEPT !.hash = @ \cup {tx},
              !.sn = [k \in DOMAIN @ \cup {sender_nonce(tx)} |->
                        IF k = sender_nonce(tx) THEN tx ELSE @[k]]]

\* DictRemove without the pop of the (sender, nonce) entry
DictRemove_keeps_sender_nonce(m, tx) ==
    IF m.err # "" THEN m ELSE [m EXCEPT !.hash = @ \ {tx}]

\* _tx_sender_nonce_dict.pop(sender_nonce); _tx_hash_dict.pop(tx.sig)
DictRemove(m, tx) ==
    IF m.err # "" THEN m
    ELSE [m EXCEPT !.sn = [k \in DOMAIN @ \ {sender_nonce(tx)} |-> @[k]],
                   !.hash = @ \ {tx}]

Dict_add_tx(m, tx, is_gapped_tx) ==
    IF m.err # "" THEN m
    ELSE IF \/ tx \in m.hash
            \/ sender_nonce(tx) \in DOMAIN m.sn
            \/ SQ_contains(m.pq, GasPriceKey(m.pq, tx), tx)
            \/ SQ_contains(m.gq, GasPriceKey(m.gq, tx), tx)
    THEN Raise(m, AssertionError)
    ELSE IF is_gapped_tx
    THEN AssertDictSizes(GqAdd(DictInsert(m, tx), tx))
    ELSE AssertDictSizes(queue_tx(PqAdd(DictInsert(m, tx), tx), tx.sender, tx.nonce + 1))

Dict_pop_tx(m, tx) ==
    IF m.err # "" THEN m
    ELSE IF tx \notin m.hash \/ sender_nonce(tx) \notin DOMAIN m.sn
    THEN Raise(m, AssertionError)
    ELSE IF SQ_contains(m.gq, GasPriceKey(m.gq, tx), tx)
    THEN DictRemove(GqPop(m, tx), tx)
    ELSE DictRemove(dequeue_tx(PqPop(m, tx), tx.sender, tx.nonce + 1), tx)

Dict_done_tx(m, tx, is_suspended) ==
    IF m.err # "" THEN m
    ELSE IF \/ tx \notin m.hash
            \/ sender_nonce(tx) \notin DOMAIN m.sn
            \/ SQ_contains(m.pq, GasPriceKey(m.pq, tx), tx)
            \/ SQ_contains(m.gq, GasPriceKey(m.gq, tx), tx)
    THEN Raise(m, AssertionError)
    ELSE IF is_suspended
    THEN DictRemove(dequeue_tx(m, tx.sender, tx.nonce + 1), tx)
    ELSE DictRemove(m, tx)

Dict_acquire_tx(m, tx) == PqPop(m, tx)

\* cancel_process_tx that puts the tx of a pool that is not suspended back
\* into no queue
Dict_cancel_process_tx_without_add(m, tx, is_suspended) ==
    IF is_suspended
    THEN dequeue_tx(GqAdd(m, tx), tx.sender, tx.nonce + 1)
    ELSE m

Dict_cancel_process_tx(m, tx, is_suspended) ==
    IF is_suspended
    THEN dequeue_tx(GqAdd(m, tx), tx.sender, tx.nonce + 1)
    ELSE PqAdd(m, tx)

\* the tx with the lowest gas price of the queue, NoTx for Python's None
peek_gapped_lower_tx(m) == IF Len(m.gq) > 0 THEN SQ_top(m.gq) ELSE NoTx

peek_pending_lower_tx(m) == IF Len(m.pq) > 0 THEN SQ_top(m.pq) ELSE NoTx

peek_lower_tx(m) ==
    IF Len(m.gq) > 0 THEN peek_gapped_lower_tx(m) ELSE peek_pending_lower_tx(m)

\* ------------------------------------------------- class MPSenderTxPool
Empty == "Empty"
Queued == "Queued"
Processing == "Processing"
Suspended == "Suspended"

\* lt_key_func of _tx_nonce_queue: lambda a: -a.nonce
NonceKey(q, tx) == [a \in Items(q, tx) |-> 0 - a.nonce]

\* MPSenderTxPool.__init__
NewPool(time) ==
    [state |-> Empty, gas_price |-> 0, heartbeat |-> time, state_tx_cnt |-> 0,
     processing_tx |-> NoTx, q |-> <<>>]

is_empty(p) == Len(p.q) = 0

is_processing(p) == p.processing_tx # NoTx

\* top_tx, only used where the nonce queue is known to have an element
top_tx(p) == p.q[Len(p.q)]

actual_state(p) ==
    IF Len(p.q) = 0 THEN Empty
    ELSE IF p.processing_tx # NoTx THEN Processing
    ELSE IF p.state_tx_cnt # p.q[Len(p.q)].nonce THEN Suspended
    ELSE Queued

SetPoolState(p, new_state) ==
    [p EXCEPT !.state = new_state,
              !.gas_price = IF new_state # Empty THEN p.q[Len(p.q)].gas_price ELSE 0]

sync_state(p) == SetPoolState(p, actual_state(p))

IsValidState(p, new_state) ==
    IF new_state # p.state THEN FALSE
    ELSE IF new_state = Queued THEN p.q[Len(p.q)].gas_price = p.gas_price
    ELSE TRUE

has_valid_state(p) == IsValidState(p, actual_state(p))

RECURSIVE pending_walk(_, _, _)
\* the loop over reversed(_tx_nonce_queue) of pending_nonce / pending_stop_pos:
\* i is the 1-based position in the queue, walked from the last element down;
\* n is the variable pending_nonce of the loop
pending_walk(q, i, n) ==
    IF i = 0 THEN n
    ELSE IF q[i].nonce # n THEN n
    ELSE pending_walk(q, i - 1, n + 1)

\* None when the pool is Suspended or Empty
pending_nonce(p) ==
    IF p.state \in {Suspended, Empty} THEN None
    ELSE pending_walk(p.q, Len(p.q), p.state_tx_cnt)

pending_stop_pos(p) ==
    IF p.state \in {Suspended, Empty} THEN 0
    ELSE pending_walk(p.q, Len(p.q), p.state_tx_cnt) - p.state_tx_cnt

last_nonce(p) == IF Len(p.q) # 0 THEN p.q[1].nonce ELSE None

\* the property state_tx_cnt: ok = FALSE when its assertion fails
Pool_state_tx_cnt(p) ==
    IF p.processing_tx # NoTx
    THEN [ok |-> p.state_tx_cnt = p.processing_tx.nonce,
          v |-> p.processing_tx.nonce + 1]
    ELSE [ok |-> TRUE, v |-> p.state_tx_cnt]

SetPoolQ(m, s, r) ==
    IF r.ok THEN [m EXCEPT !.pool[s].q = r.q] ELSE Raise(m, AssertionError)

SetHeartbeat(m, s, time) ==
    IF m.err # "" THEN m ELSE [m EXCEPT !.pool[s].heartbeat = time]

Pool_add_tx(m, s, tx, time) ==
    IF m.err # "" THEN m
    ELSE IF ~(m.pool[s].state_tx_cnt <= tx.nonce) THEN Raise(m, AssertionError)
    ELSE SetHeartbeat(SetPoolQ(m, s, SQ_add(m.pool[s].q, NonceKey(m.pool[s].q, tx), tx)), s, time)

Pool_acquire_tx(m, s, tx) ==
    IF m.err # "" THEN m
    ELSE IF is_processing(m.pool[s]) THEN Raise(m, AssertionError)
    ELSE IF is_empty(m.pool[s]) THEN Raise(m, IndexError)
    ELSE IF tx # top_tx(m.pool[s]) THEN Raise(m, AssertionError)
    ELSE [m EXCEPT !.pool[s] = sync_state([@ EXCEPT !.processing_tx = tx])]

validate_processing_tx(p, tx) ==
    /\ ~is_empty(p)
    /\ is_processing(p)
    /\ tx = p.processing_tx
    /\ top_tx(p) = p.processing_tx

Pool_done_tx(m, s, tx) ==
    IF m.err # "" THEN m
    ELSE IF ~validate_processing_tx(m.pool[s], tx) THEN Raise(m, AssertionError)
    ELSE [m EXCEPT !.pool[s].q = SubSeq(@, 1, Len(@) - 1),
                   !.pool[s].processing_tx = NoTx]

Pool_drop_tx(m, s, tx) ==
    IF m.err # "" THEN m
    ELSE IF is_processing(m.pool[s]) /\ tx = m.pool[s].processing_tx
    THEN Raise(m, AssertionError)
    ELSE SetPoolQ(m, s, SQ_pop(m.pool[s].q, NonceKey(m.pool[s].q, tx), tx))

Pool_cancel_process_tx(m, s, tx) ==
    IF m.err # "" THEN m
    ELSE IF ~validate_processing_tx(m.pool[s], tx) THEN Raise(m, AssertionError)
    ELSE [m EXCEPT !.pool[s].processing_tx = NoTx]

\* --------------------------------------------------- class MPTxSchedule
\* set_capacity_high_watermark: int(capacity * value), value as a percentage
set_capacity_high_watermark(cap, pct) == (cap * pct) \div 100

tx_cnt(m) == Cardinality(m.hash)

\* the sender pool queue is ordered by the pools' gas_price, the heartbeat
\* queue by the negated heartbeat; both hold the pools by sender address
SetHbq(m, r) == IF r.ok THEN [m EXCEPT !.hbq = r.q] ELSE Raise(m, AssertionError)
SetSpq(m, r) == IF r.ok THEN [m EXCEPT !.spq = r.q] ELSE Raise(m, AssertionError)

\* lt_key_func of the heartbeat queue: lambda a: -a.heartbeat
HeartbeatKey(m) == [a \in Senders |-> 0 - m.pool[a].heartbeat]

\* lt_key_func of the sender pool queue: lambda a: a.gas_price
PoolGasPriceKey(m) == [a \in Senders |-> m.pool[a].gas_price]

HbqPop(m, s) ==
    IF m.err # "" THEN m
    ELSE SetHbq(m, SQ_pop(m.hbq, HeartbeatKey(m), s))
HbqAdd(m, s) ==
    IF m.err # "" THEN m
    ELSE SetHbq(m, SQ_add(m.hbq, HeartbeatKey(m), s))
SpqPop(m, s) ==
    IF m.err # "" THEN m
    ELSE SetSpq(m, SQ_pop(m.spq, PoolGasPriceKey(m), s))
SpqAdd(m, s) ==
    IF m.err # "" THEN m
    ELSE SetSpq(m, SQ_add(m.spq, PoolGasPriceKey(m), s))

\* self._sender_pool_dict[sender_pool.sender_address] = sender_pool
PoolDictInsert(m, s) == IF m.err # "" THEN m ELSE [m EXCEPT !.dict = @ \cup {s}]

\* self._sender_pool_dict.pop(sender_pool.sender_address)
PoolDictPop(m, s) ==
    IF m.err # "" THEN m
    ELSE IF s \notin m.dict THEN Raise(m, KeyError)
    ELSE [m EXCEPT !.dict = @ \ {s}]

add_tx_to_sender_pool(m, s, tx, is_gapped_tx, time) ==
    IF m.err # "" THEN m
    ELSE IF m.pool[s].state = Empty
    THEN HbqAdd(PoolDictInsert(
             Dict_add_tx(Pool_add_tx(m, s, tx, time), tx, is_gapped_tx), s), s)
    ELSE HbqAdd(Dict_add_tx(Pool_add_tx(HbqPop(m, s), s, tx, time), tx, is_gapped_tx), s)

drop_tx_from_sender_pool(m, s, tx) == Dict_pop_tx(Pool_drop_tx(m, s, tx), tx)

\* _sync_sender_state, first half: leave the queue or set of the old state
LeaveOldState(m, s) ==
    IF m.pool[s].state = Suspended
    THEN IF s \in m.susp THEN [m EXCEPT !.susp = @ \ {s}] ELSE Raise(m, KeyError)
    ELSE IF m.pool[s].state = Queued THEN SpqPop(m, s)
    ELSE m

SyncPool(m, s) == IF m.err # "" THEN m ELSE [m EXCEPT !.pool[s] = sync_state(@)]

\* _sync_sender_state, second half: enter the queue or set of the new state
EnterNewState(m, s) ==
    IF m.err # "" THEN m
    ELSE IF m.pool[s].state = Empty THEN HbqPop(PoolDictPop(m, s), s)
    ELSE IF m.pool[s].state = Suspended THEN [m EXCEPT !.susp = @ \cup {s}]
    ELSE IF m.pool[s].state = Queued THEN SpqAdd(m, s)
    ELSE m

sync_sender_state(m, s) ==
    IF m.err # "" THEN m
    ELSE IF has_valid_state(m.pool[s]) THEN m
    ELSE EnterNewState(SyncPool(LeaveOldState(m, s), s), s)

RECURSIVE drop_below(_, _, _)
\* the while loop of _set_sender_tx_cnt
drop_below(m, s, state_tx_cnt) ==
    IF m.err # "" THEN m
    ELSE IF is_empty(m.pool[s]) THEN m
    ELSE IF top_tx(m.pool[s]).nonce >= state_tx_cnt THEN m
    ELSE drop_below(drop_tx_from_sender_pool(m, s, top_tx(m.pool[s])), s, state_tx_cnt)

\* MPSenderTxPool.set_state_tx_cnt
set_state_tx_cnt(m, s, value) ==
    IF m.err # "" THEN m ELSE [m EXCEPT !.pool[s].state_tx_cnt = value]

set_sender_tx_cnt(m, s, state_tx_cnt) ==
    IF m.err # "" THEN m
    ELSE IF ~Pool_state_tx_cnt(m.pool[s]).ok THEN Raise(m, AssertionError)
    ELSE IF Pool_state_tx_cnt(m.pool[s]).v = state_tx_cnt THEN m
    ELSE IF is_processing(m.pool[s]) THEN m
    ELSE set_state_tx_cnt(drop_below(m, s, state_tx_cnt), s, state_tx_cnt)

schedule_sender_pool(m, s, state_tx_cnt) ==
    sync_sender_state(set_sender_tx_cnt(m, s, state_tx_cnt), s)

\* one round of the for loop of _check_oversized_and_reduce, tx being the
\* result of peek_lower_tx; r = [m, changed, stop]
reduce_step(r, new_tx, tx) ==
    IF tx = NoTx \/ tx = new_tx THEN [r EXCEPT !.stop = TRUE]
    ELSE IF tx.sender \notin r.m.dict
    THEN [r EXCEPT !.m = Raise(@, AssertionError)]
    ELSE [m |-> drop_tx_from_sender_pool(r.m, tx.sender, tx),
          changed |-> r.changed \cup {tx.sender},
          stop |-> FALSE]

RECURSIVE reduce_loop(_, _, _, _)
reduce_loop(r, new_tx, i, tx_cnt_to_remove) ==
    IF r.m.err # "" \/ r.stop \/ i >= tx_cnt_to_remove THEN r
    ELSE reduce_loop(reduce_step(r, new_tx, peek_lower_tx(r.m)),
                     new_tx, i + 1, tx_cnt_to_remove)

RECURSIVE sync_changed(_, _, _, _)
\* the loop over changed_sender_set; order is the iteration order of the set
sync_changed(m, order, i, changed) ==
    IF m.err # "" \/ i > Len(order) THEN m
    ELSE IF order[i] \notin changed THEN sync_changed(m, order, i + 1, changed)
    ELSE IF order[i] \notin m.dict THEN Raise(m, AssertionError)
    ELSE sync_changed(sync_sender_state(m, order[i]), order, i + 1, changed)

sync_reduced(r, order) == sync_changed(r.m, order, 1, r.changed)

check_oversized_and_reduce(m, new_tx, order) ==
    IF m.err # "" THEN m
    ELSE IF tx_cnt(m) - m.capacity <= 0 THEN m
    ELSE sync_reduced(reduce_loop([m |-> m, changed |-> {}, stop |-> FALSE],
                                  new_tx, 0, tx_cnt(m) - m.capacity),
                      order)

Max(a, b) == IF a >= b THEN a ELSE b

Result(m, code) == IF m.err # "" THEN m ELSE [m EXCEPT !.code = code]

\* _get_or_create_sender_pool: a sender without a pool gets a new pool
\* object, which enters _sender_pool_dict only in _add_tx_to_sender_pool
get_or_create_sender_pool(m, s, time) ==
    IF s \in m.dict THEN m ELSE [m EXCEPT !.pool[s] = NewPool(time)]

\* sender_pool.pending_nonce or state_tx_cnt, pn being pending_nonce
pending_nonce_or(pn, state_tx_cnt) ==
    IF pn = None \/ pn = 0 THEN state_tx_cnt ELSE pn

\* is_gapped_tx of add_tx
IsGappedTx(p, tx, state_tx_cnt) ==
    pending_nonce_or(pending_nonce(p), state_tx_cnt) < tx.nonce

\* drop the tx that holds the (sender, nonce) of the new tx, if any
DropOldTx(m, tx) ==
    IF sender_nonce(tx) \in DOMAIN m.sn
    THEN drop_tx_from_sender_pool(m, tx.sender, m.sn[sender_nonce(tx)])
    ELSE m

\* add_tx from the capacity checks on
add_tx_checked(m, tx, state_tx_cnt, is_gapped_tx, time, order) ==
    IF /\ tx_cnt(m) >= m.capacity_high_watermark
       /\ is_gapped_tx
       /\ Len(m.gq) = 0
    THEN Result(m, "NonceTooHigh")
    ELSE IF /\ tx_cnt(m) >= m.capacity_high_watermark
            /\ is_gapped_tx
            /\ tx.gas_price < SQ_top(m.gq).gas_price
    THEN Result(m, "Underprice")
    ELSE IF /\ tx_cnt(m) >= m.capacity_high_watermark
            /\ ~is_gapped_tx
            /\ tx_cnt(m) >= m.capacity
            /\ Len(m.gq) = 0
            /\ Len(m.pq) > 0
            /\ tx.gas_price < SQ_top(m.pq).gas_price
    THEN Result(m, "Underprice")
    ELSE IF m.pool[tx.sender].state = Processing /\ is_empty(m.pool[tx.sender])
    THEN Raise(m, IndexError)
    ELSE IF /\ m.pool[tx.sender].state = Processing
            /\ top_tx(m.pool[tx.sender]).nonce = tx.nonce
    THEN Result(m, "NonceTooLow")
    ELSE IF state_tx_cnt > tx.nonce THEN Result(m, "NonceTooLow")
    ELSE Result(
           check_oversized_and_reduce(
             schedule_sender_pool(
               add_tx_to_sender_pool(DropOldTx(m, tx), tx.sender, tx, is_gapped_tx, time),
               tx.sender, state_tx_cnt),
             tx, order),
           "Success")

\* add_tx from the computation of state_tx_cnt on
add_tx_counted(m, tx, state_tx_cnt, time, order) ==
    add_tx_checked(m, tx, state_tx_cnt,
                   IsGappedTx(m.pool[tx.sender], tx, state_tx_cnt), time, order)

\* add_tx from _get_or_create_sender_pool on
add_tx_pool(m, tx, cfg_cnt, time, order) ==
    IF ~Pool_state_tx_cnt(m.pool[tx.sender]).ok THEN Raise(m, AssertionError)
    ELSE add_tx_counted(m, tx, Max(cfg_cnt, Pool_state_tx_cnt(m.pool[tx.sender]).v),
                        time, order)

\* add_tx without the look-up of the hash
add_tx_without_hash_lookup(m, tx, cfg_cnt, time, order) ==
    IF /\ sender_nonce(tx) \in DOMAIN m.sn
       /\ m.sn[sender_nonce(tx)].gas_price >= tx.gas_price
    THEN Result(m, "Underprice")
    ELSE add_tx_pool(get_or_create_sender_pool(m, tx.sender, time),
                     tx, cfg_cnt, time, order)

\* MPTxSchedule.add_tx; cfg_cnt is tx.neon_tx_exec_cfg.state_tx_cnt
add_tx(m, tx, cfg_cnt, time, order) ==
    IF tx \in m.hash THEN Result(m, "AlreadyKnown")
    ELSE IF /\ sender_nonce(tx) \in DOMAIN m.sn
            /\ m.sn[sender_nonce(tx)].gas_price >= tx.gas_price
    THEN Result(m, "Underprice")
    ELSE add_tx_pool(get_or_create_sender_pool(m, tx.sender, time),
                     tx, cfg_cnt, time, order)

RECURSIVE drop_all(_, _)
\* while not sender_pool.is_empty(): drop the top tx
drop_all(m, s) ==
    IF m.err # "" THEN m
    ELSE IF is_empty(m.pool[s]) THEN m
    ELSE drop_all(drop_tx_from_sender_pool(m, s, top_tx(m.pool[s])), s)

RECURSIVE drop_expired_loop(_, _, _)
\* the outer while loop of drop_expired_sender_pools.  A round that leaves the
\* pool at the top of the heartbeat queue repeats for ever: err = "Hang"
drop_expired_loop(m, threshold, fuel) ==
    IF m.err # "" THEN m
    ELSE IF Len(m.hbq) = 0 THEN m
    ELSE IF \/ threshold < m.pool[SQ_top(m.hbq)].heartbeat
            \/ is_processing(m.pool[SQ_top(m.hbq)])
    THEN m
    ELSE IF fuel = 0 THEN Raise(m, "Hang")
    ELSE drop_expired_loop(
             sync_sender_state(drop_all(m, SQ_top(m.hbq)), SQ_top(m.hbq)),
             threshold, fuel - 1)

drop_expired_sender_pools(m, eviction_timeout_sec, time) ==
    drop_expired_loop(m, time - eviction_timeout_sec, Len(m.hbq))

\* None (NoTx) when no pool is queued
peek_top_tx(m) ==
    IF Len(m.spq) = 0 THEN NoTx ELSE top_tx(m.pool[SQ_top(m.spq)])

\* peek_top_tx raises IndexError when the top pool has no tx
peek_top_tx_raises(m) == Len(m.spq) > 0 /\ is_empty(m.pool[SQ_top(m.spq)])

acquire_tx(m, tx) ==
    IF tx.sender \notin m.dict THEN Raise(m, AssertionError)
    ELSE IF m.pool[tx.sender].state # Queued THEN Raise(m, AssertionError)
    ELSE Dict_acquire_tx(Pool_acquire_tx(SpqPop(m, tx.sender), tx.sender, tx), tx)

\* self._tx_dict.done_tx(tx, sender_pool.state == sender_pool.State.Suspended)
Dict_done_tx_by_state(m, tx) ==
    Dict_done_tx(m, tx, m.pool[tx.sender].state = Suspended)

\* _done_tx, which is done_tx and fail_tx; cfg_cnt is
\* tx.neon_tx_exec_cfg.state_tx_cnt
done_tx(m, tx, cfg_cnt) ==
    IF tx.sender \notin m.dict THEN Raise(m, AssertionError)
    ELSE Dict_done_tx_by_state(
             schedule_sender_pool(Pool_done_tx(m, tx.sender, tx), tx.sender, cfg_cnt),
             tx)

Dict_cancel_process_tx_by_state(m, tx) ==
    IF m.err # "" THEN m
    ELSE Dict_cancel_process_tx(m, tx, m.pool[tx.sender].state = Suspended)

cancel_tx(m, tx, cfg_cnt) ==
    IF tx.sender \notin m.dict THEN Raise(m, AssertionError)
    ELSE Dict_cancel_process_tx_by_state(
             schedule_sender_pool(Pool_cancel_process_tx(m, tx.sender, tx),
                                  tx.sender, cfg_cnt),
             tx)

\* if sender_pool.state == Queued: self._tx_dict.queue_tx(...)
queue_if_queued(m, s) ==
    IF m.err = "" /\ m.pool[s].state = Queued
    THEN queue_tx(m, s, top_tx(m.pool[s]).nonce)
    ELSE m

set_sender_state_tx_cnt(m, s, state_tx_cnt) ==
    IF s \in m.dict /\ m.pool[s].state = Suspended
    THEN queue_if_queued(schedule_sender_pool(m, s, state_tx_cnt), s)
    ELSE m

drop_stuck_tx(m, tx) ==
    IF tx \notin m.hash THEN Result(m, "True")
    ELSE IF tx.sender \notin m.dict THEN Raise(m, AssertionError)
    ELSE IF m.pool[tx.sender].state = Processing THEN Result(m, "False")
    ELSE Result(sync_sender_state(
                    drop_tx_from_sender_pool(
                        set_sender_tx_cnt(m, tx.sender, tx.nonce), tx.sender, tx),
                    tx.sender),
                "True")

\* ------------------------------------------- solana_tx_list_sender.py
MaxSolTx == 2
MaxBlockHash == 2
MaxRetryOnFail == 2
\* Config.confirm_timeout_sec and Config.confirm_check_msec
ConfirmTimeoutSec == 2
ConfirmCheckMsec == 1000

SolTxs == 1..MaxSolTx
BlockHashes == 1..MaxBlockHash

\* SolTxSendState.Status, in the order of the enum
StatusList ==
    <<"WaitForReceipt", "GoodReceipt", "LogTruncatedError",
      "AccountAlreadyExistsError", "AlreadyFinalizedError",
      "NoReceiptError", "BlockHashNotFoundError", "AltInvalidIndexError",
      "NodeBehindError", "BlockedAccountError",
      "CUBudgetExceededError", "InvalidIxDataError", "RequireResizeIterError",
      "BadNonceError", "UnknownError">>

\* the receipts of the network, named by the status decode_tx_status finds in
\* them: one or more of each kind check_tx_status_for_send tells apart
Receipts ==
    {"GoodReceipt", "LogTruncatedError", "AccountAlreadyExistsError", "AlreadyFinalizedError",
     "BlockHashNotFoundError", "NodeBehindError", "BlockedAccountError",
     "CUBudgetExceededError", "UnknownError"}

\* the receipt None
NoReceipt == "None"

RescheduleError ==
    {"BadResourceError", "BlockedAccountsError", "NodeBehindError", "SolanaUnavailableError",
     "NoMoreRetriesError", "BlockHashNotFound", "CommitLevelError"}

WrongStrategyError == {"CUBudgetExceededError", "InvalidIxDataError", "RequireResizeIterError"}

\* the configurations: retry_on_fail, fuzz_testing, commit_level
Configs ==
    [retry_on_fail : 1..MaxRetryOnFail,
     fuzz_testing : BOOLEAN,
     commit_level : {"Confirmed", "Finalized"},
     confirm_timeout_sec : {ConfirmTimeoutSec},
     confirm_check_msec : {ConfirmCheckMsec}]

\* SolTx.__init__: no blockhash, not signed
NewSolTx == [recent_block_hash |-> None, is_signed |-> FALSE]

\* SolTx.recent_block_hash setter followed by SolTx.sign
SignedSolTx(block_hash) == [recent_block_hash |-> block_hash, is_signed |-> TRUE]

\* SolTxListSender.__init__; tx holds the SolTx objects of the caller, pc and
\* the fields after it the position and the locals of a running send()
SolTxListSender(config) ==
    [config |-> config,
     block_hash |-> None,
     bad_block_hash_set |-> {},
     tx_list |-> <<>>,
     tx_state_dict |-> <<>>,
     tx_state_list_dict |-> <<>>,
     tx |-> [t \in SolTxs |-> NewSolTx],
     pc |-> "idle",
     retry_idx |-> 0,
     rounds |-> 0,
     elapsed_time |-> 0,
     tx_state_list |-> <<>>,
     ret |-> "",
     err |-> ""]

\* dict.pop(key) and dict[key] = value
DictPop(d, keys) == [k \in DOMAIN d \ keys |-> d[k]]
DictSet(d, key, value) == [k \in DOMAIN d \cup {key} |-> IF k = key THEN value ELSE d[k]]

\* SolTx.signature: the tx and the blockhash it is signed with
Sig(s, t) == <<t, s.tx[t].recent_block_hash>>

clear(s) ==
    [s EXCEPT !.block_hash = None,
              !.tx_list = <<>>,
              !.tx_state_dict = <<>>,
              !.tx_state_list_dict = <<>>]

\* the status of a decoded receipt; a blockhash reported not-found enters
\* bad_block_hash_set
decode_tx_status(s, t, tx_receipt) ==
    IF tx_receipt = "BlockHashNotFoundError"
    THEN [s EXCEPT !.bad_block_hash_set = @ \cup {s.tx[t].recent_block_hash}]
    ELSE s

\* the exception kept in SolTxSendState.error, or SolTxError(receipt)
ErrorOf(tx_status) ==
    CASE tx_status = "NodeBehindError" -> "NodeBehindError"
      [] tx_status = "BlockedAccountError" -> "BlockedAccountsError"
      [] tx_status = "InvalidIxDataError" -> "InvalidIxDataError"
      [] tx_status = "CUBudgetExceededError" -> "CUBudgetExceededError"
      [] tx_status = "RequireResizeIterError" -> "RequireResizeIterError"
      [] tx_status = "BadNonceError" -> "NonceTooLowError"
      [] OTHER -> "SolTxError"

add_tx_state(s, t, tx_receipt, no_receipt_status) ==
    LET tx_status == IF tx_receipt = NoReceipt THEN no_receipt_status ELSE tx_receipt
        s1 == IF tx_receipt = NoReceipt THEN s ELSE decode_tx_status(s, t, tx_receipt)
        old == IF tx_status \in DOMAIN s1.tx_state_list_dict
               THEN s1.tx_state_list_dict[tx_status] ELSE <<>>
    IN  IF ~s1.tx[t].is_signed THEN [s1 EXCEPT !.err = AssertionError]
        ELSE [s1 EXCEPT !.tx_state_dict = DictSet(@, Sig(s1, t), tx_status),
                        !.tx_state_list_dict = DictSet(@, tx_status, Append(old, t))]

\* add_tx_state for the txs list[i..], with the receipts of receipt
RECURSIVE add_tx_state_list(_, _, _, _, _)
add_tx_state_list(s, list, i, receipt, no_receipt_status) ==
    IF i > Len(list) \/ s.err # "" THEN s
    ELSE add_tx_state_list(add_tx_state(s, list[i], receipt[list[i]], no_receipt_status),
                           list, i + 1, receipt, no_receipt_status)

\* get_block_hash without the tests against the bad blockhashes
get_block_hash_without_bad_set(s, recent) ==
    IF s.block_hash # None THEN s ELSE [s EXCEPT !.block_hash = recent]

\* recent is the answer of get_recent_block_hash
get_block_hash(s, recent) ==
    LET s1 == IF s.block_hash \in s.bad_block_hash_set
              THEN [s EXCEPT !.block_hash = None] ELSE s
    IN  IF s1.block_hash # None THEN s1
        ELSE IF recent \in s1.bad_block_hash_set THEN [s1 EXCEPT !.err = "BlockHashNotFound"]
        ELSE [s1 EXCEPT !.block_hash = recent]

\* the loop of sign_tx_list from tx_list[i]; fuzz[t] is the blockhash of
\* get_fuzz_block_hash when the random draw picks it for t, else None
RECURSIVE sign_tx_loop(_, _, _)
sign_tx_loop(s, i, fuzz) ==
    IF i > Len(s.tx_list) THEN s
    ELSE LET t == s.tx_list[i]
             reset == s.tx[t].is_signed /\ s.tx[t].recent_block_hash \in s.bad_block_hash_set
             tx == IF reset THEN NewSolTx ELSE s.tx[t]
             dict == IF s.tx[t].is_signed THEN DictPop(s.tx_state_dict, {Sig(s, t)})
                     ELSE s.tx_state_dict
         IN  sign_tx_loop(
                 [s EXCEPT !.tx_state_dict = dict,
                           !.tx[t] = IF tx.recent_block_hash # None THEN tx
                                     ELSE IF s.config.fuzz_testing /\ fuzz[t] # None
                                          THEN SignedSolTx(fuzz[t])
                                     ELSE SignedSolTx(s.block_hash)],
                 i + 1, fuzz)

sign_tx_list(s, recent, fuzz) ==
    IF get_block_hash(s, recent).err # "" THEN get_block_hash(s, recent)
    ELSE sign_tx_loop(get_block_hash(s, recent), 1, fuzz)

\* the txs of list that are, or are not, in set, in the order of list
Filter(list, set, in) ==
    SelectSeq(list, LAMBDA t : (t \in set) = in)

\* skipped are the txs the fuzzing skips; result[t] is NoReceipt for an accepted
\* tx, else the receipt of the preflight error; serialize asserts is_signed
send_tx_list(s, skipped, result) ==
    LET fuzz == s.config.fuzz_testing /\ Len(s.tx_list) > 1
        skipped_tx_list == IF fuzz THEN Filter(s.tx_list, skipped, TRUE) ELSE <<>>
        s1 == IF fuzz THEN [s EXCEPT !.tx_list = Filter(s.tx_list, skipped, FALSE)] ELSE s
    IN  IF \E i \in 1..Len(s1.tx_list) : ~s1.tx[s1.tx_list[i]].is_signed
        THEN [s1 EXCEPT !.err = AssertionError]
        ELSE add_tx_state_list(
                 add_tx_state_list(s1, s1.tx_list, 1, result, "WaitForReceipt"),
                 skipped_tx_list, 1, [t \in skipped |-> NoReceipt], "WaitForReceipt")

\* check_tx_status_for_send with GoodReceipt alone in the place of the
\* completed statuses
check_tx_status_good_receipt_only(s, tx_status) ==
    IF tx_status \in {"WaitForReceipt", "GoodReceipt", "LogTruncatedError",
                      "AccountAlreadyExistsError"} THEN "False"
    ELSE IF tx_status \notin DOMAIN s.tx_state_list_dict THEN "False"
    ELSE IF tx_status \in {"NoReceiptError", "BlockHashNotFoundError", "AltInvalidIndexError"}
         THEN "True"
    ELSE IF tx_status = "BlockedAccountError" /\ "GoodReceipt" \in DOMAIN s.tx_state_list_dict
         THEN "True"
    ELSE "raise"

\* "True", "False" or "raise"
check_tx_status_for_send(s, tx_status) ==
    LET completed_tx_status_set ==
            {"WaitForReceipt", "GoodReceipt", "LogTruncatedError", "AccountAlreadyExistsError"}
        resubmitted_tx_status_set ==
            {"NoReceiptError", "BlockHashNotFoundError", "AltInvalidIndexError"}
    IN  IF tx_status \in completed_tx_status_set THEN "False"
        ELSE IF tx_status \notin DOMAIN s.tx_state_list_dict THEN "False"
        ELSE IF Len(s.tx_state_list_dict[tx_status]) = 0 THEN "False"
        ELSE IF tx_status \in resubmitted_tx_status_set THEN "True"
        ELSE IF /\ tx_status = "BlockedAccountError"
                /\ completed_tx_status_set \cap DOMAIN s.tx_state_list_dict # {}
             THEN "True"
        ELSE "raise"

\* the loop of get_tx_list_for_send from the i-th status of the enum
RECURSIVE get_tx_list_loop(_, _, _)
get_tx_list_loop(s, i, remove_tx_status_set) ==
    IF i > Len(StatusList)
    THEN [s EXCEPT !.tx_state_list_dict = DictPop(@, remove_tx_status_set)]
    ELSE IF check_tx_status_for_send(s, StatusList[i]) = "raise"
         THEN [s EXCEPT !.err = ErrorOf(StatusList[i])]
    ELSE IF check_tx_status_for_send(s, StatusList[i]) = "False"
         THEN get_tx_list_loop(s, i + 1, remove_tx_status_set)
    ELSE get_tx_list_loop([s EXCEPT !.tx_list = @ \o s.tx_state_list_dict[StatusList[i]]],
                          i + 1, remove_tx_status_set \cup {StatusList[i]})

get_tx_list_for_send(s) ==
    IF "AlreadyFinalizedError" \in DOMAIN s.tx_state_list_dict
    THEN [s EXCEPT !.tx_list = <<>>]
    ELSE get_tx_list_loop([s EXCEPT !.tx_list = <<>>], 1, {})

\* get_block_status passes two of the three arguments of get_block_status
validate_commit_level(s) ==
    IF s.config.commit_level = "Confirmed" THEN s ELSE [s EXCEPT !.err = "TypeError"]

\* the end of _send: what send() returns or raises, after _send_impl has
\* returned or raised s.err
finish_send(s) ==
    LET v == validate_commit_level([s EXCEPT !.err = ""])
        ret == IF s.err \in WrongStrategyError \cup RescheduleError THEN s.err
               ELSE IF v.err # "" THEN v.err
               ELSE IF s.err # "" THEN s.err
               ELSE "True"
    IN  [s EXCEPT !.pc = "idle", !.ret = ret, !.err = ""]

\* after_retries without its raise of NoMoreRetriesError
after_retries_without_raise(s) == finish_send(s)

\* the end of _send_impl, after the loop
after_retries(s) ==
    IF Len(s.tx_list) > 0 THEN finish_send([s EXCEPT !.err = "NoMoreRetriesError"]) ELSE finish_send(s)

\* the next iteration of the loop of _send_impl, or its end
next_retry(s) ==
    IF s.retry_idx + 1 < s.config.retry_on_fail
    THEN [s EXCEPT !.retry_idx = @ + 1, !.pc = "sign"]
    ELSE after_retries(s)

\* send(), up to the loop of _send_impl; fresh are the txs of tx_list built
\* for this call
send(s, tx_list, fresh) ==
    LET s1 == [clear(s) EXCEPT !.ret = "", !.rounds = 0, !.retry_idx = 0]
        s2 == [s1 EXCEPT !.tx_list = tx_list,
                         !.tx = [t \in SolTxs |-> IF t \in fresh THEN NewSolTx ELSE @[t]]]
    IN  IF Len(tx_list) = 0 THEN [s1 EXCEPT !.ret = "False"]
        ELSE IF s2.config.retry_on_fail > 0 THEN [s2 EXCEPT !.pc = "sign"]
        ELSE after_retries(s2)

\* one iteration of _send_impl, line 138
sign_round(s, recent, fuzz) ==
    IF sign_tx_list(s, recent, fuzz).err # "" THEN finish_send(sign_tx_list(s, recent, fuzz))
    ELSE [sign_tx_list(s, recent, fuzz) EXCEPT !.pc = "send"]

\* one iteration of _send_impl, lines 139..145
send_round(s, skipped, result) ==
    LET s1 == send_tx_list(s, skipped, result)
        s2 == get_tx_list_for_send(s1)
    IN  IF s1.err # "" THEN finish_send(s1)
        ELSE IF s2.err # "" THEN finish_send(s2)
        ELSE IF Len(s2.tx_list) # 0 THEN next_retry(s2)
        ELSE [s2 EXCEPT !.pc = "wait"]

\* one iteration of _send_impl, lines 151..153
check_round(s) ==
    LET s1 == get_tx_list_for_send(s)
    IN  IF s1.err # "" THEN finish_send(s1)
        ELSE IF Len(s1.tx_list) = 0 THEN after_retries(s1)
        ELSE next_retry(s1)

\* wait_for_tx_receipt_list up to the loop of wait_for_confirmation_of_tx_list
wait_for_tx_receipt_list(s) ==
    IF "WaitForReceipt" \notin DOMAIN s.tx_state_list_dict THEN check_round(s)
    ELSE [s EXCEPT !.tx_state_list = s.tx_state_list_dict["WaitForReceipt"],
                   !.tx_state_list_dict = DictPop(@, {"WaitForReceipt"}),
                   !.elapsed_time = 0,
                   !.pc = "confirm"]

\* one test of the loop of wait_for_confirmation_of_tx_list, in msec
wait_for_confirmation_of_tx_list(s, is_confirmed) ==
    IF s.elapsed_time >= s.config.confirm_timeout_sec * 1000 \/ is_confirmed
    THEN [s EXCEPT !.pc = "receipt"]
    ELSE [s EXCEPT !.elapsed_time = @ + s.config.confirm_check_msec]

\* receipt[t] is NoReceipt for a tx without receipt
get_tx_receipt_list(s, receipt) ==
    LET s1 == add_tx_state_list(s, s.tx_state_list, 1, receipt, "NoReceiptError")
    IN  IF s1.err # "" THEN finish_send(s1)
        ELSE check_round([s1 EXCEPT !.tx_state_list = <<>>])

\* ------------------------------------------------ neon_tx_sender.py
\* NeonTxSendStrategyExecutor._strategy_list
StrategyList ==
    <<"SimpleNeonTxStrategy", "ALTSimpleNeonTxStrategy",
      "IterativeNeonTxStrategy", "ALTIterativeNeonTxStrategy",
      "SimpleHolderNeonTxStrategy", "ALTSimpleHolderNeonTxStrategy",
      "HolderNeonTxStrategy", "ALTHolderNeonTxStrategy",
      "NoChainIdNeonTxStrategy", "ALTNoChainIdNeonTxStrategy">>

\* the strategy of index strategy_idx, counted from 0
Strategy(strategy_idx) == StrategyList[strategy_idx + 1]

IsIterative(strategy_idx) ==
    Strategy(strategy_idx) \in {"IterativeNeonTxStrategy", "ALTIterativeNeonTxStrategy"}

\* the nonce of the Neon tx of the worker, and the tx counts of its sender
MaxWorkerTxCnt == 1
NeonTxNonce == MaxWorkerTxCnt - 1
StateTxCnts == 0..MaxWorkerTxCnt

\* the exceptions a strategy passes on from the tx list sender and the emulator
StrategyErrors ==
    WrongStrategyError \cup RescheduleError \cup {"NonceTooLowError", "SolTxError"}

\* the answers of get_neon_account_info: the tx count, or no answer
AccountInfos == [ok : BOOLEAN, tx_count : StateTxCnts]

\* a worker with the exec-config of its tx; from log on the history of the
\* running execution: the strategies tried and how each ended, whether the
\* normal path of the iterative strategy failed, the CancelWithHash txs sent
Worker(retry_on_fail) ==
    [retry_on_fail |-> retry_on_fail,
     strategy_idx |-> 0,
     state_tx_cnt |-> 0,
     pc |-> "idle",
     start |-> 0,
     idx |-> 0,
     retry |-> 0,
     tx_state_list |-> <<>>,
     code |-> "",
     exc |-> "",
     log |-> <<>>,
     normal_failed |-> FALSE,
     cancel_cnt |-> 0]

\* MPExecutorExecNeonTxTask.execute_neon_tx: the result code for the
\* exception of execute_neon_tx_impl, "" for none
execute_neon_tx(exc) ==
    IF exc = "" THEN "Done"
    ELSE IF exc = "BlockedAccountsError" THEN "Reschedule"
    ELSE IF exc \in {"NodeBehindError", "SolanaUnavailableError"} THEN "Reschedule"
    ELSE IF exc = "BadResourceError" THEN "BadResource"
    ELSE "Failed"

\* the worker returns, after execute_neon_tx_impl has returned or raised exc;
\* the strategy and its tx list sender are dropped
Return(w, exc) ==
    [w EXCEPT !.pc = "idle", !.exc = exc, !.code = execute_neon_tx(exc),
              !.retry = 0, !.tx_state_list = <<>>]

\* the strategy of w.idx ends with outcome: "invalid", "" for a result, or
\* the exception it raises, a WrongStrategyError without its kind
Log(w, outcome) ==
    [w EXCEPT !.log = Append(@, [idx |-> w.idx,
                                 outcome |-> IF outcome \in WrongStrategyError
                                             THEN "WrongStrategyError" ELSE outcome])]

\* _init_state_tx_cnt; the request raises SolanaUnavailableError without answer
init_state_tx_cnt(w, info) ==
    IF ~info.ok THEN [w EXCEPT !.exc = "SolanaUnavailableError"]
    ELSE [w EXCEPT !.state_tx_cnt = info.tx_count]

validate_nonce(w, info) ==
    IF init_state_tx_cnt(w, info).exc # "" THEN init_state_tx_cnt(w, info)
    ELSE IF info.tx_count > NeonTxNonce
         THEN [init_state_tx_cnt(w, info) EXCEPT !.exc = "NonceTooLowError"]
    ELSE init_state_tx_cnt(w, info)

\* the head of the loop of _execute for strategy_idx
for_strategy(w, strategy_idx) ==
    IF strategy_idx >= Len(StrategyList) THEN Return(w, "RuntimeError")
    ELSE [w EXCEPT !.idx = strategy_idx, !.pc = "validate"]

\* 'continue' in the loop of _execute: the finally clause, then the next strategy
continue_strategy(w, info) ==
    IF init_state_tx_cnt(w, info).exc # ""
    THEN Return(init_state_tx_cnt(w, info), init_state_tx_cnt(w, info).exc)
    ELSE for_strategy(init_state_tx_cnt(w, info), w.idx + 1)

\* _execute without 'except WrongStrategyError: continue'
end_strategy_without_continue(w, exc, info) ==
    IF init_state_tx_cnt(w, info).exc # ""
    THEN Return(init_state_tx_cnt(Log(w, exc), info), "SolanaUnavailableError")
    ELSE Return(init_state_tx_cnt(Log(w, exc), info), exc)

\* the strategy raises exc, or returns with exc = "": the except clauses and
\* the finally clause of _execute
end_strategy(w, exc, info) ==
    IF exc \in WrongStrategyError THEN continue_strategy(Log(w, exc), info)
    ELSE IF init_state_tx_cnt(w, info).exc # ""
         THEN Return(init_state_tx_cnt(Log(w, exc), info), "SolanaUnavailableError")
    ELSE Return(init_state_tx_cnt(Log(w, exc), info), exc)

\* execute_neon_tx up to the loop of _execute
execute(w, info) ==
    LET w1 == [w EXCEPT !.code = "", !.exc = "", !.log = <<>>, !.start = w.strategy_idx,
                        !.retry = 0, !.tx_state_list = <<>>, !.normal_failed = FALSE,
                        !.cancel_cnt = 0]
    IN  IF validate_nonce(w1, info).exc # ""
        THEN Return(validate_nonce(w1, info), validate_nonce(w1, info).exc)
        ELSE for_strategy(validate_nonce(w1, info), w1.strategy_idx)

\* lines 59..66: is_valid is the answer of strategy.validate()
validate(w, is_valid, info) ==
    IF ~is_valid THEN continue_strategy(Log(w, "invalid"), info)
    ELSE [w EXCEPT !.strategy_idx = w.idx, !.retry = 0, !.pc = "prep"]

\* one iteration of the loop of lines 70..78: prep is "True" or "False", the
\* answer of prep_before_emulate, or the exception it raises; emulated is the
\* tx count _emulate_neon_tx reads
prep_before_emulate(w, prep, emulated, info) ==
    LET e == validate_nonce(w, emulated)
        w1 == IF prep = "True" \/ w.retry = 0 THEN e ELSE w
    IN  IF prep \in StrategyErrors THEN end_strategy(w, prep, info)
        ELSE IF w1.exc # "" THEN end_strategy([w1 EXCEPT !.exc = ""], w1.exc, info)
        ELSE IF prep = "False" THEN [w1 EXCEPT !.pc = "execute", !.retry = 0]
        ELSE IF w.retry + 1 < w.retry_on_fail THEN [w1 EXCEPT !.retry = @ + 1]
        ELSE end_strategy(w1, "NoMoreRetriesError", info)

\* line 78 for a strategy that is not iterative: result is "Result" or the
\* exception strategy.execute() raises
strategy_execute(w, result, info) ==
    IF result = "Result" THEN end_strategy(w, "", info) ELSE end_strategy(w, result, info)

\* ------------------------------------ neon_tx_send_iterative_strategy.py
\* the SolTxSendState of a tx that was sent
SolTxSendStates ==
    {[status |-> "GoodReceipt", neon_tx_return |-> TRUE],
     [status |-> "GoodReceipt", neon_tx_return |-> FALSE],
     [status |-> "LogTruncatedError", neon_tx_return |-> FALSE],
     [status |-> "AlreadyFinalizedError", neon_tx_return |-> FALSE],
     [status |-> "NoReceiptError", neon_tx_return |-> FALSE]}

\* tx_state_list of the tx list sender after _send_tx_list
TxStateLists ==
    {<<>>} \cup {<<a>> : a \in SolTxSendStates}
           \cup {<<a, a>> : a \in SolTxSendStates}

\* NeonTxResultInfo.is_valid of _decode_neon_tx_result: the result of a
\* GoodReceipt with a Neon return, or the lost result of a finalized tx
decode_neon_tx_result(tx_state_list) ==
    \E i \in 1..Len(tx_state_list) :
        \/ tx_state_list[i].status = "GoodReceipt" /\ tx_state_list[i].neon_tx_return
        \/ tx_state_list[i].status = "AlreadyFinalizedError"

has_good_receipt_list(tx_state_list) ==
    \E i \in 1..Len(tx_state_list) : tx_state_list[i].status = "GoodReceipt"

\* execute, after _execute has returned neon_tx_res with is_valid
Iterative_execute(w, is_valid, info) ==
    IF is_valid THEN end_strategy(w, "", info)
    ELSE [w EXCEPT !.normal_failed = TRUE, !.pc = "cancel", !.retry = 0]

\* the loop of _execute, from its test of retry
Iterative_retry(w, retry, info) ==
    IF retry < w.retry_on_fail /\ has_good_receipt_list(w.tx_state_list)
    THEN [w EXCEPT !.retry = retry, !.pc = "complete"]
    ELSE end_strategy([w EXCEPT !.normal_failed = TRUE], "NoMoreRetriesError", info)

\* _execute after a _send_tx_list: sent is the exception it raises, or "" and
\* tx_state_list the states of the sender
Iterative_decode(w, retry, sent, tx_state_list, info) ==
    IF sent # "" THEN end_strategy(w, sent, info)
    ELSE IF decode_neon_tx_result(tx_state_list)
         THEN Iterative_execute([w EXCEPT !.tx_state_list = tx_state_list], TRUE, info)
    ELSE Iterative_retry([w EXCEPT !.tx_state_list = tx_state_list], retry, info)

\* _cancel after its _send_tx_list
Iterative_cancel(w, sent, tx_state_list, info) ==
    LET w1 == [w EXCEPT !.cancel_cnt = @ + 1, !.tx_state_list = tx_state_list]
    IN  IF sent # "" THEN end_strategy(w1, sent, info)
        ELSE IF Len(tx_state_list) # 1 THEN end_strategy(w1, "WrongNumberOfItersError", info)
        ELSE IF tx_state_list[1].status \notin {"GoodReceipt", "LogTruncatedError"}
             THEN end_strategy(w1, "SolTxError", info)
        ELSE end_strategy(w1, "", info)

\* one _send_tx_list of the iterative strategy and what follows it, up to
\* the next one: the full list, a completing iteration, or the cancel tx
Iterative_send(w, sent, tx_state_list, info) ==
    IF w.pc = "execute" THEN Iterative_decode(w, 0, sent, tx_state_list, info)
    ELSE IF w.pc = "complete" THEN Iterative_decode(w, w.retry + 1, sent, tx_state_list, info)
    ELSE Iterative_cancel(w, sent, tx_state_list, info)

\* ------------------------------ neon_tx_send_strategy_holder_stage.py
holder_msg_size == 900

\* the lengths of holder_msg: up to MaxHolderWrite chunks, the last one of
\* 1 byte, of holder_msg_size - 1 bytes or full
MaxHolderWrite == 3
HolderMsgLens ==
    {n \in {k * holder_msg_size + d : k \in 0..(MaxHolderWrite - 1),
                                      d \in {0, 1, holder_msg_size - 1, holder_msg_size}} :
        n <= MaxHolderWrite * holder_msg_size}

\* builder.holder_msg of len bytes
HolderMsg(len) == [i \in 1..len |-> (i * 7) % 256]

\* the signature of the Neon tx of the strategy, and the one of another tx
NeonTxSig == "X"
NeonTxSigs == {"X", "Y"}

\* HolderStatus; Empty stands for the tags that are none of the other three
HolderStatuses == {"Empty", "Holder", "Active", "Finalized"}

\* the answers of get_holder_account_info; NoHolder for None
NoHolder == [status |-> "None", neon_tx_sig |-> ""]
HolderInfos == {NoHolder} \cup [status : HolderStatuses, neon_tx_sig : NeonTxSigs]

\* a holder-backed strategy of a worker with its WriteHolderNeonTxPrepStage,
\* the ctx of the tx (is_stuck_tx, has_sol_tx of HolderWrite, holder_msg) and
\* the holder account on the chain (info, data); written holds the offsets of
\* the HolderWrite txs on the chain, in their order; foreign_write and
\* foreign_exec tell that a tx was submitted to a foreign holder
HolderStrategy(retry_on_fail, is_stuck_tx, has_sol_tx, len, info) ==
    [retry_on_fail |-> retry_on_fail,
     is_stuck_tx |-> is_stuck_tx,
     has_sol_tx |-> has_sol_tx,
     holder_msg |-> len,
     info |-> info,
     data |-> <<>>,
     holder_status |-> "Empty",
     pc |-> "idle",
     retry |-> 0,
     has_changes |-> FALSE,
     tx_list |-> {},
     written |-> <<>>,
     code |-> "",
     exc |-> "",
     foreign_write |-> FALSE,
     foreign_exec |-> FALSE]

\* the holder is Active under the signature of another tx
IsForeign(info) == info.status = "Active" /\ info.neon_tx_sig # NeonTxSig

\* the strategy ends: execute_neon_tx_impl returns, or raises exc
HolderReturn(h, exc) ==
    [h EXCEPT !.pc = "idle", !.exc = exc, !.code = execute_neon_tx(exc), !.tx_list = {}]

\* make_write_ix(holder_msg_offset, holder_msg_part) in a tx of the stage
HolderWriteTx(holder_msg_offset, holder_msg_part) ==
    [name |-> "HolderWrite", offset |-> holder_msg_offset, data |-> holder_msg_part]

Min(a, b) == IF a < b THEN a ELSE b

\* build_tx_list with the offset of every chunk 0
build_tx_loop_without_offset(holder_msg, holder_msg_offset, tx_list) ==
    [i \in 1..((Len(holder_msg) + holder_msg_size - 1) \div holder_msg_size) |->
        HolderWriteTx(0, SubSeq(holder_msg, (i - 1) * holder_msg_size + 1,
                                Min(i * holder_msg_size, Len(holder_msg))))]

\* the loop of build_tx_list
RECURSIVE build_tx_loop(_, _, _)
build_tx_loop(holder_msg, holder_msg_offset, tx_list) ==
    IF Len(holder_msg) = 0 THEN tx_list
    ELSE build_tx_loop(
             SubSeq(holder_msg, holder_msg_size + 1, Len(holder_msg)),
             holder_msg_offset + holder_msg_size,
             Append(tx_list,
                    HolderWriteTx(holder_msg_offset,
                                  SubSeq(holder_msg, 1, Min(holder_msg_size, Len(holder_msg))))))

\* build_tx_list: the list of the tx lists of the stage
build_tx_list(h) ==
    IF h.is_stuck_tx \/ h.has_sol_tx THEN <<>>
    ELSE <<build_tx_loop(HolderMsg(h.holder_msg), 0, <<>>)>>

\* get_tx_name_list
get_tx_name_list(h) == IF h.is_stuck_tx THEN <<>> ELSE <<"HolderWrite">>

\* _get_holder_account_info: the exception it raises, "" for none
get_holder_account_info(h) ==
    IF h.info = NoHolder THEN "BadResourceError"
    ELSE IF h.info.status \notin {"Finalized", "Active", "Holder"} THEN "BadResourceError"
    ELSE ""

\* _validate_holder_account; the HolderContentError of line 45 is built and
\* not raised
validate_holder_account(h) ==
    IF get_holder_account_info(h) # "" THEN [h EXCEPT !.exc = get_holder_account_info(h)]
    ELSE IF h.info.status = "Active" /\ h.info.neon_tx_sig # NeonTxSig
         THEN [h EXCEPT !.holder_status = h.info.status, !.exc = "StuckTxError"]
    ELSE [h EXCEPT !.holder_status = h.info.status]

\* validate_stuck_tx
validate_stuck_tx(h) ==
    IF get_holder_account_info(h) # "" THEN [h EXCEPT !.exc = get_holder_account_info(h)]
    ELSE IF h.info.status = "Active" /\ h.info.neon_tx_sig # NeonTxSig
         THEN [h EXCEPT !.holder_status = "Finalized"]
    ELSE IF h.info.status = "Holder" THEN [h EXCEPT !.holder_status = "Finalized"]
    ELSE [h EXCEPT !.holder_status = h.info.status]

\* update_holder_tag
update_holder_tag(h) ==
    IF h.is_stuck_tx THEN validate_stuck_tx(h) ELSE validate_holder_account(h)

\* the HolderWrite instruction on the chain: part replaces the bytes of the
\* holder from offset on
WriteData(data, offset, part) ==
    [i \in 1..(IF Len(data) > offset + Len(part) THEN Len(data) ELSE offset + Len(part)) |->
        IF i > offset /\ i <= offset + Len(part) THEN part[i - offset]
        ELSE IF i <= Len(data) THEN data[i]
        ELSE 0]

\* ------------------------------------ the loop of _execute for the strategy
\* lines 70..71: prep_before_emulate builds the tx lists of the stage and
\* hands them to the tx list sender
Holder_prep_before_emulate(h) ==
    IF build_tx_list(h) = <<>>
    THEN [h EXCEPT !.has_changes = FALSE,
                   !.pc = IF h.retry = 0 THEN "emulate" ELSE "execute"]
    ELSE [h EXCEPT !.has_changes = TRUE, !.pc = "send",
                   !.tx_list = {build_tx_list(h)[1][i] : i \in 1..Len(build_tx_list(h)[1])},
                   !.foreign_write = @ \/ (IsForeign(h.info) /\ build_tx_list(h)[1] # <<>>)]

\* a HolderWrite tx of the list gets on the chain; the holder of another tx
\* and the missing holder refuse it
Holder_write(h, tx) ==
    IF h.info = NoHolder \/ IsForeign(h.info) THEN HolderReturn(h, "SolTxError")
    ELSE [h EXCEPT !.tx_list = @ \ {tx}, !.data = WriteData(@, tx.offset, tx.data),
                   !.written = Append(@, tx.offset)]

\* the tx list sender returns: the HolderWrite txs are sent
Holder_sent(h) == [h EXCEPT !.has_sol_tx = TRUE, !.pc = "emulate"]

\* lines 72..81: after _emulate_neon_tx, update_after_emulate and the end of
\* the loop body
Holder_update_after_emulate(h) ==
    IF update_holder_tag(h).exc # "" THEN HolderReturn(update_holder_tag(h), update_holder_tag(h).exc)
    ELSE IF ~h.has_changes THEN [update_holder_tag(h) EXCEPT !.pc = "execute"]
    ELSE IF h.retry + 1 < h.retry_on_fail
         THEN [update_holder_tag(h) EXCEPT !.retry = @ + 1, !.pc = "prep"]
    ELSE HolderReturn(update_holder_tag(h), "NoMoreRetriesError")

\* line 78: strategy.execute() submits the txs that execute the Neon tx
\* from the holder; a stuck tx that the stage found finished has none left
Holder_execute(h) ==
    IF h.is_stuck_tx /\ h.holder_status = "Finalized" THEN HolderReturn(h, "")
    ELSE HolderReturn([h EXCEPT !.foreign_exec = @ \/ IsForeign(h.info)], "")

\* ---------------------------------------------------------- indexer_db.py
\* the slots of the chain the indexer walks
MaxSlot == 3
Slots == 1..MaxSlot

\* the slots of S by ascending slot, as the indexer queues its blocks
RECURSIVE SlotQueue(_)
SlotQueue(S) ==
    IF S = {} THEN <<>>
    ELSE LET last == CHOOSE s \in S : \A t \in S : t <= s
         IN  Append(SlotQueue(S \ {last}), last)

\* a NeonIndexedBlockInfo of the indexer, NoBlock for a slot without one
NeonIndexedBlockInfo(is_finalized) ==
    [exists |-> TRUE, is_finalized |-> is_finalized, is_done |-> FALSE]
NoBlock == [exists |-> FALSE, is_finalized |-> FALSE, is_done |-> FALSE]

\* IndexerDB over an empty database.  constants_db and sol_blocks_db are the
\* persisted tables (the slots of the stored blocks); neon_block holds the
\* block objects of the indexer by slot; submitted describes the batch of
\* the last submit_block_list, as it was passed in
IndexerDB(is_reindexing) ==
    [is_reindexing |-> is_reindexing,
     latest_slot |-> 0,
     finalized_slot |-> 0,
     min_used_slot |-> 0,
     constants_db |-> [finalized_block_slot |-> 0, latest_block_slot |-> 0,
                       min_receipt_block_slot |-> 0],
     sol_blocks_db |-> {},
     neon_block |-> [s \in Slots |-> NoBlock],
     submitted |-> [last_slot |-> 0, is_finalized |-> FALSE, is_new |-> FALSE]]

set_finalized_slot(db, slot) ==
    IF db.finalized_slot >= slot THEN db
    ELSE [db EXCEPT !.finalized_slot = slot, !.constants_db.finalized_block_slot = slot]

set_latest_slot(db, slot) ==
    IF db.latest_slot >= slot THEN db
    ELSE [db EXCEPT !.latest_slot = slot, !.constants_db.latest_block_slot = slot]

set_min_used_slot(db, slot) ==
    IF db.min_used_slot >= slot THEN db
    ELSE [db EXCEPT !.min_used_slot = slot, !.constants_db.min_receipt_block_slot = slot]

\* the rows it finalizes in the block tables do not bear on the constants
finalize_block_list(db, neon_block_queue) ==
    LET block_slot_list ==
            SelectSeq(neon_block_queue,
                      LAMBDA s : db.neon_block[s].is_done /\ s > db.finalized_slot)
    IN  IF Len(block_slot_list) = 0 THEN db
        ELSE set_finalized_slot(db, neon_block_queue[Len(neon_block_queue)])

\* it writes the stuck txs and the active rows of the block tables only
activate_block_list(db, neon_block_queue) == db

\* submit_block_list: the action of run_tx, in one transaction
submit_block_list(db, min_used_slot, neon_block_queue) ==
    LET new_neon_block_queue ==
            SelectSeq(neon_block_queue, LAMBDA s : ~db.neon_block[s].is_done)
        last_block == neon_block_queue[Len(neon_block_queue)]
        stored == set_min_used_slot(
            [db EXCEPT !.sol_blocks_db =
                 @ \cup {new_neon_block_queue[i] : i \in 1..Len(new_neon_block_queue)}],
            min_used_slot)
        live == IF db.neon_block[last_block].is_finalized
                THEN finalize_block_list(set_latest_slot(stored, last_block), neon_block_queue)
                ELSE activate_block_list(set_latest_slot(stored, last_block), neon_block_queue)
        done == IF db.is_reindexing THEN stored ELSE live
    IN  [done EXCEPT
            !.neon_block = [s \in Slots |->
                IF \E i \in 1..Len(neon_block_queue) : neon_block_queue[i] = s
                THEN [@[s] EXCEPT !.is_done = TRUE] ELSE @[s]],
            !.submitted = [last_slot |-> last_block,
                           is_finalized |-> db.neon_block[last_block].is_finalized,
                           is_new |-> Len(new_neon_block_queue) = Len(neon_block_queue)]]

\* ------------------------------------------------------------- indexer.py
\* the ranges of a reindexing indexer: start_slot <= stop_slot
IndexerRanges ==
    {r \in [start_slot : 0..MaxSlot, stop_slot : 0..MaxSlot] : r.start_slot <= r.stop_slot}

\* Indexer after __init__, before run().  sol_finalized and sol_confirmed are
\* the answers of get_block_slot of the chain; root_slot is the slot of the
\* finalized block of _neon_block_dict, the start slot of the context before
\* there is one; no tracer is configured
Indexer(is_reindexing, start_slot, stop_slot) ==
    [is_reindexing |-> is_reindexing,
     start_slot |-> start_slot,
     stop_slot |-> stop_slot,
     confirmed_slot |-> None,
     last_processed_slot |-> 0,
     last_confirmed_slot |-> 0,
     last_finalized_slot |-> 0,
     root_slot |-> start_slot,
     sol_finalized |-> 0,
     sol_confirmed |-> 0,
     pc |-> "run"]

is_done_parsing(ix) ==
    IF ~ix.is_reindexing THEN FALSE
    ELSE ix.stop_slot <= ix.last_processed_slot

\* the head of the loop of _run: the loop ends and _run returns
run(ix) ==
    IF is_done_parsing(ix) THEN [ix EXCEPT !.pc = "has_new_blocks"]
    ELSE [ix EXCEPT !.pc = "done"]

\* _has_new_blocks and the test of its result in _run
has_new_blocks(ix) ==
    IF ix.is_reindexing
    THEN LET finalized_slot == Min(ix.stop_slot, ix.sol_finalized)
         IN  [ix EXCEPT !.last_finalized_slot = finalized_slot,
                        !.pc = IF ix.last_finalized_slot < finalized_slot
                               THEN "run" ELSE "process"]
    ELSE LET result ==
                 (IF ix.confirmed_slot \in {None, 0} THEN 1 ELSE ix.confirmed_slot)
                     # ix.sol_confirmed
         IN  [ix EXCEPT !.last_confirmed_slot = ix.sol_confirmed,
                        !.last_finalized_slot = IF result THEN ix.sol_finalized ELSE @,
                        !.pc = IF result THEN "run" ELSE "process"]

\* _collect_neon_txs: the blocks of start_slot..stop_slot are located in turn
collect_neon_txs(ix, stop_slot, is_finalized) ==
    IF stop_slot < ix.root_slot THEN ix
    ELSE [ix EXCEPT !.last_processed_slot = stop_slot,
                    !.root_slot = IF is_finalized THEN stop_slot ELSE @]

\* the body of the loop of _run after _has_new_blocks: history is "ok", or the
\* exception the reading of the blocks raises; then the loop sleeps
process_solana_blocks(ix, history) ==
    LET finalized == collect_neon_txs(ix, ix.last_finalized_slot, TRUE)
        confirmed == collect_neon_txs(finalized, ix.last_confirmed_slot, FALSE)
    IN  IF history # "ok" THEN [ix EXCEPT !.pc = "run"]
        ELSE IF ix.is_reindexing THEN [finalized EXCEPT !.pc = "run"]
        ELSE IF ix.sol_finalized - ix.last_finalized_slot >= 3
             THEN [finalized EXCEPT !.pc = "run"]
        ELSE [confirmed EXCEPT !.confirmed_slot = ix.last_confirmed_slot, !.pc = "run"]

\* --------------------------------------------------------- indexer_app.py
\* the slots of the reindexing ranges, and the settings of the ranges
MaxStartSlot == 4
MaxRangeCnt == 3
MaxRangeLen == 3

\* a range of persistence: the start and stop slot of an IndexerDB
ReindexRanges ==
    {r \in [start_slot : 0..MaxStartSlot, stop_slot : 0..MaxStartSlot] :
        r.start_slot < r.stop_slot}

\* the ranges of S by ascending start slot
RECURSIVE RangeList(_)
RangeList(S) ==
    IF S = {} THEN <<>>
    ELSE LET last == CHOOSE r \in S : \A t \in S : t.start_slot <= r.start_slot
         IN  Append(RangeList(S \ {last}), last)

\* the lists _load_exist_reindex_ranges returns: the key of a range holds
\* its start slot, so no two ranges of persistence start at the same slot
DbLists ==
    {RangeList(S) : S \in {T \in SUBSET ReindexRanges :
        \A a, b \in T : a.start_slot = b.start_slot => a = b}}

\* NeonIndexerApp before _add_new_reindex_ranges; new_db_list is <<>> until
\* the ranges are added, is_added tells that they are
NeonIndexerApp(reindex_max_range_cnt, reindex_range_len, reindex_start_slot, start_slot, db_list) ==
    [reindex_max_range_cnt |-> reindex_max_range_cnt,
     reindex_range_len |-> reindex_range_len,
     reindex_start_slot |-> reindex_start_slot,
     start_slot |-> start_slot,
     loaded_cnt |-> Len(db_list),
     db_list |-> db_list,
     is_added |-> FALSE]

\* the while loop of _build_new_reindex_ranges
RECURSIVE build_range_loop(_, _, _, _)
build_range_loop(start_slot, range_len, app_start_slot, new_db_list) ==
    IF start_slot < app_start_slot
    THEN LET stop_slot == Min(start_slot + range_len, app_start_slot)
         IN  build_range_loop(stop_slot, range_len, app_start_slot,
                 Append(new_db_list, [start_slot |-> start_slot, stop_slot |-> stop_slot]))
    ELSE new_db_list

build_new_reindex_ranges(app) ==
    LET total_len == app.start_slot - app.reindex_start_slot + 1
        need_cnt == total_len \div app.reindex_range_len + 1
        avail_cnt == Min(Max(1, app.reindex_max_range_cnt - Len(app.db_list)), need_cnt)
        range_len == total_len \div avail_cnt + 1
    IN  build_range_loop(app.reindex_start_slot, range_len, app.start_slot, <<>>)

\* the index in db_list of max(db_list, key=start_slot), and of min
last_old_db(db_list) ==
    CHOOSE i \in 1..Len(db_list) :
        /\ \A j \in 1..Len(db_list) : db_list[j].start_slot <= db_list[i].start_slot
        /\ \A j \in 1..(i - 1) : db_list[j].start_slot < db_list[i].start_slot

first_new_db(new_db_list) ==
    CHOOSE i \in 1..Len(new_db_list) :
        /\ \A j \in 1..Len(new_db_list) : new_db_list[i].start_slot <= new_db_list[j].start_slot
        /\ \A j \in 1..(i - 1) : new_db_list[i].start_slot < new_db_list[j].start_slot

\* _try_extend_last_db: the lists db_list and new_db_list after it
try_extend_last_db(app, new_db_list) ==
    IF Len(app.db_list) = 0 \/ Len(new_db_list) = 0
    THEN [db_list |-> app.db_list, new_db_list |-> new_db_list]
    ELSE LET first == new_db_list[first_new_db(new_db_list)]
             last == last_old_db(app.db_list)
         IN  IF first.start_slot - app.db_list[last].stop_slot > app.reindex_range_len
             THEN [db_list |-> app.db_list, new_db_list |-> new_db_list]
             ELSE [db_list |-> [app.db_list EXCEPT ![last].stop_slot = first.stop_slot],
                   new_db_list |-> Tail(new_db_list)]

add_new_reindex_ranges(app) ==
    LET lists == try_extend_last_db(app, build_new_reindex_ranges(app))
    IN  [app EXCEPT !.db_list = lists.db_list \o lists.new_db_list, !.is_added = TRUE]

\* --------------------------------------------------- solana_interactor.py
\* the settings of retry_on_fail of the interactor
MaxPostRetry == 3

\* what a _simple_send_post_request does: it returns the response, or the
\* post or raise_for_status raises a requests RequestException, or
\* something else is raised
RequestException == {"ConnectionError", "Timeout", "HTTPError"}
PostOutcomes == {"Response", "BaseException"} \cup RequestException

\* SolInteractor with the retry_on_fail of its config, and its running
\* _send_post_request: log holds the outcomes of the attempts made, slept
\* the seconds of time.sleep, pause the attempts a sleep came before
SolInteractor(retry_on_fail) ==
    [retry_on_fail |-> retry_on_fail,
     pc |-> "idle",
     retry |-> 0,
     log |-> <<>>,
     slept |-> 0,
     pause |-> {},
     result |-> ""]

\* _send_post_request up to its loop
send_post_request(sol) ==
    [sol EXCEPT !.pc = "post", !.retry = 0, !.log = <<>>, !.slept = 0, !.pause = {},
                !.result = ""]

\* the test of retry in the except clause
has_retry_strict(sol) == sol.retry + 2 <= sol.retry_on_fail

has_retry(sol) == sol.retry + 1 <= sol.retry_on_fail

\* one iteration of the loop: the request is posted with outcome
simple_send_post_request(sol, outcome) ==
    LET posted == [sol EXCEPT !.retry = @ + 1, !.log = Append(@, outcome)]
    IN  IF outcome = "Response" THEN [posted EXCEPT !.pc = "idle", !.result = "Response"]
        ELSE IF outcome \in RequestException
             THEN IF has_retry(sol)
                  THEN [posted EXCEPT !.slept = @ + 1, !.pause = @ \cup {posted.retry + 1}]
                  ELSE [posted EXCEPT !.pc = "idle", !.result = "SolanaUnavailableError"]
        ELSE [posted EXCEPT !.pc = "idle", !.result = outcome]

\* the pubkeys of one getMultipleAccounts request
account_chunk_size == 50

\* the lengths of src_account_list: around the multiples of the chunk size
MaxAccountChunks == 2
AccountListLens ==
    {k * account_chunk_size + d : k \in 0..MaxAccountChunks, d \in {0, 1, account_chunk_size - 1}}

\* what the getMultipleAccounts request of a chunk does: the response holds
\* a value for every pubkey of the chunk, with None (null) for those of the
\* accounts that are missing, or it holds an error, or the request raises
RpcOutcomes ==
    {"value", "first_missing", "last_missing", "all_missing", "error",
     "SolanaUnavailableError"}

\* the outcomes of the requests of the chunks, as far as it comes to them
RpcOutcomeLists == [1..(MaxAccountChunks + 1) -> RpcOutcomes]

\* the info the response holds for the pubkey at position i of a chunk of n
IsMissing(outcome, i, n) ==
    \/ outcome = "all_missing"
    \/ outcome = "first_missing" /\ i = 1
    \/ outcome = "last_missing" /\ i = n

\* _decode_account_info: the AccountInfo of the account of pubkey
decode_account_info(pubkey) == [address |-> pubkey]

\* a call of get_account_info_list: the pubkeys of src_account_list are
\* 1..src_len, rpc the outcomes of the requests; account_info_list is what
\* the call returns (exc = "") once pc is "done", request_list the numbers
\* of pubkeys of the requests it sent
AccountInfoCall(src_len, rpc) ==
    [src_len |-> src_len,
     rpc |-> rpc,
     pc |-> "call",
     account_info_list |-> <<>>,
     request_list |-> <<>>,
     exc |-> ""]

\* the loop of get_account_info_list from the chunk that starts at pubkey
\* first on, where call holds what the chunks before it have come to
RECURSIVE account_info_loop(_, _)
account_info_loop(call, first) ==
    IF first > call.src_len THEN [call EXCEPT !.pc = "done"]
    ELSE LET n == Min(account_chunk_size, call.src_len - first + 1)
             outcome == call.rpc[Len(call.request_list) + 1]
             sent == [call EXCEPT !.request_list = Append(@, n)]
         IN  IF outcome = "SolanaUnavailableError"
             THEN [sent EXCEPT !.pc = "done", !.exc = outcome, !.account_info_list = <<>>]
             ELSE IF outcome = "error" THEN [sent EXCEPT !.pc = "done"]
             ELSE account_info_loop(
                      [sent EXCEPT !.account_info_list = @ \o
                          [i \in 1..n |-> IF IsMissing(outcome, i, n) THEN None
                                          ELSE decode_account_info(first + i - 1)]],
                      first + n)

get_account_info_list(call) == account_info_loop(call, 1)

\* ----------------------------------- mempool_periodic_task_gas_price.py
\* the chains of the tokens, the settings of the window length, and the
\* refreshes of one run
MaxChain == 2
MaxPriceCount == 3
MaxRefresh == 3
Chains == 1..MaxChain

\* MPGasPriceTokenResult: the chain and its min_executable_gas_price
TokenResult(chain_id, min_executable_gas_price) ==
    [chain_id |-> chain_id, min_executable_gas_price |-> min_executable_gas_price]

\* MPGasPriceResult.token_list: a token for every chain of the EVM config
TokenLists ==
    {[c \in Chains |-> TokenResult(c, price[c])] : price \in [Chains -> 0..MaxGasPrice]}

\* MPGasPriceTaskLoop after __init__, with its window length.  observed
\* holds every min_executable_gas_price a result has reported for the chain,
\* in order; token_list is that of the last result passed to on_gas_price
MPGasPriceTaskLoop(min_executable_gas_prices_count) ==
    [min_executable_gas_prices_count |-> min_executable_gas_prices_count,
     min_executable_gas_prices |-> [c \in Chains |-> <<>>],
     observed |-> [c \in Chains |-> <<>>],
     token_list |-> <<>>,
     refresh_cnt |-> 0,
     exc |-> ""]

\* min() of a list
SeqMin(list) == CHOOSE m \in {list[i] : i \in 1..Len(list)} :
                    \A i \in 1..Len(list) : m <= list[i]

\* the while loop of _process_result: pop(0) while the count <= the length
RECURSIVE pop_loop(_, _)
pop_loop(count, list) ==
    IF count <= Len(list) THEN pop_loop(count, Tail(list)) ELSE list

\* the body of the for loop of _process_result for the token of index idx.
\* bound is the chain whose list the local variable min_executable_gas_prices
\* is bound to, 0 before the first assignment to it
process_token(loop, token_list, idx, bound) ==
    LET token == token_list[idx]
        seen == [loop EXCEPT !.observed[token.chain_id] =
                     Append(@, token.min_executable_gas_price)]
        added == IF token.min_executable_gas_price > 0
                 THEN [seen EXCEPT !.min_executable_gas_prices[token.chain_id] =
                          pop_loop(loop.min_executable_gas_prices_count,
                                   Append(@, token.min_executable_gas_price))]
                 ELSE seen
        new_bound == IF token.min_executable_gas_price > 0 THEN token.chain_id ELSE bound
        list == added.min_executable_gas_prices[new_bound]
    IN  IF new_bound = 0
        THEN [loop |-> [added EXCEPT !.exc = "UnboundLocalError"],
              token_list |-> token_list, bound |-> new_bound]
        ELSE IF list = <<>>
             THEN [loop |-> [added EXCEPT !.exc = "ValueError"],
                   token_list |-> token_list, bound |-> new_bound]
        ELSE [loop |-> added,
              token_list |-> IF SeqMin(list) > 0
                             THEN [token_list EXCEPT ![idx].min_executable_gas_price = SeqMin(list)]
                             ELSE token_list,
              bound |-> new_bound]

\* the for loop of _process_result from the token of index idx on
RECURSIVE process_token_loop(_, _, _, _)
process_token_loop(loop, token_list, idx, bound) ==
    IF idx > Len(token_list)
    THEN [loop EXCEPT !.token_list = token_list]
    ELSE LET done == process_token(loop, token_list, idx, bound)
         IN  IF done.loop.exc # "" THEN done.loop
             ELSE process_token_loop(done.loop, done.token_list, idx + 1, done.bound)

\* _process_result: on an exception on_gas_price is not called
process_result(loop, token_list) ==
    process_token_loop([loop EXCEPT !.refresh_cnt = @ + 1, !.exc = "", !.token_list = <<>>],
                       token_list, 1, 0)

\* -------------------------------------------------------- indexer_base.py
\* the slots of the chain and of the last run at a start
MaxKnownSlot == 4

\* the START_SLOT setting: a string, as the sequence of its characters
SlotChars == {"0", "1", "2", "-", "x"}
Digit(c) == IF c = "0" THEN 0 ELSE IF c = "1" THEN 1 ELSE 2
IsDigit(c) == c \in {"0", "1", "2"}
StartSlotNames == {<<"CONTINUE">>, <<"LATEST">>}
StartSlotSettings ==
    StartSlotNames \cup {<<>>} \cup {<<a>> : a \in SlotChars}
                   \cup {<<a, b>> : a, b \in SlotChars}

\* the digits of a string as a number
RECURSIVE DigitsValue(_)
DigitsValue(s) ==
    IF s = <<>> THEN 0 ELSE DigitsValue(SubSeq(s, 1, Len(s) - 1)) * 10 + Digit(s[Len(s)])

\* int(start_slot): a sign and digits make an integer, anything else raises
int(s) ==
    LET digits == IF s # <<>> /\ s[1] = "-" THEN Tail(s) ELSE s
    IN  IF s \in StartSlotNames \/ digits = <<>>
           \/ \E i \in 1..Len(digits) : ~IsDigit(digits[i])
        THEN [ok |-> FALSE, value |-> 0]
        ELSE [ok |-> TRUE,
              value |-> IF s[1] = "-" THEN 0 - DigitsValue(digits) ELSE DigitsValue(digits)]

\* a call of _get_start_slot_from_config; last_known_slot is None when
\* the database holds none
StartSlotCall(start_slot, last_known_slot, latest_slot) ==
    [start_slot |-> start_slot,
     last_known_slot |-> last_known_slot,
     latest_slot |-> latest_slot,
     pc |-> "call",
     result |-> None]

get_start_slot_from_config_without_min(start_slot, last_known_slot, latest_slot) ==
    LET known == IF last_known_slot = None THEN 0 ELSE last_known_slot
        start_int_slot == IF int(start_slot).ok THEN int(start_slot).value ELSE 0
    IN  IF start_slot = <<"CONTINUE">> /\ known > 0 THEN known
        ELSE IF start_slot \in StartSlotNames THEN latest_slot
        ELSE IF start_int_slot < known THEN known
        ELSE start_int_slot

get_start_slot_from_config(start_slot, last_known_slot, latest_slot) ==
    LET known == IF last_known_slot = None THEN 0 ELSE last_known_slot
        start_int_slot ==
            IF start_slot \in StartSlotNames THEN 0
            ELSE IF int(start_slot).ok THEN Min(int(start_slot).value, latest_slot)
            ELSE 0
    IN  IF start_slot = <<"CONTINUE">> /\ known > 0 THEN known
        ELSE IF start_slot \in StartSlotNames THEN latest_slot
        ELSE IF start_int_slot < known THEN known
        ELSE start_int_slot

\* -------------------------------------------------------------- gas_tank.py
\* the addresses analyzers ask an allowance for, and the most faucet
\* requests one address is followed through
MaxAddress == 3
MaxAirdrop == 2
Addresses == 1..MaxAddress

\* the answers of the faucet to airdrop_to: the response is ok or not, or
\* session.post raises
FaucetOutcomes == {"ok", "failed", "ConnectionError"}

\* GasTank: the rows of the table airdrop_ready and the keys of the SQLDict
\* airdrop_scheduled; airdropped counts the requests the faucet has served
\* and scheduled_cnt the times an address was put into airdrop_scheduled
GasTank ==
    [airdrop_ready |-> [a \in Addresses |-> 0],
     airdrop_scheduled |-> {},
     airdropped |-> [a \in Addresses |-> 0],
     scheduled_cnt |-> [a \in Addresses |-> 0],
     exc |-> ""]

is_airdrop_ready(gt, eth_address) == gt.airdrop_ready[eth_address] > 0

register_airdrop(gt, eth_address) ==
    [gt EXCEPT !.airdrop_ready[eth_address] = @ + 1]

allow_gas_less_tx(gt, account) ==
    IF is_airdrop_ready(gt, account) \/ account \in gt.airdrop_scheduled
    THEN [gt EXCEPT !.exc = ""]
    ELSE [gt EXCEPT !.exc = "",
                    !.airdrop_scheduled = @ \cup {account},
                    !.scheduled_cnt[account] = @ + 1]

\* the first loop of process_scheduled_trxs over the addresses of todo in
\* the order of the dict: resp[a] is the answer of the faucet for a
RECURSIVE airdrop_loop(_, _, _)
airdrop_loop(gt, todo, resp) ==
    IF todo = <<>> THEN gt
    ELSE IF resp[Head(todo)] = "ConnectionError" THEN [gt EXCEPT !.exc = "ConnectionError"]
    ELSE IF resp[Head(todo)] = "failed" THEN airdrop_loop(gt, Tail(todo), resp)
    ELSE airdrop_loop(
             register_airdrop([gt EXCEPT !.airdropped[Head(todo)] = @ + 1], Head(todo)),
             Tail(todo), resp)

\* process_scheduled_trxs: has_amount is FALSE when the mapping or the
\* price is missing; items is airdrop_scheduled.items()
process_scheduled_trxs(gt, has_amount, items, resp) ==
    LET done == airdrop_loop([gt EXCEPT !.exc = ""], items, resp)
        success_addresses ==
            {a \in gt.airdrop_scheduled : done.airdropped[a] > gt.airdropped[a]}
    IN  IF ~has_amount THEN [gt EXCEPT !.exc = ""]
        ELSE IF done.exc # "" THEN done
        ELSE [done EXCEPT !.airdrop_scheduled = @ \ success_addresses]

\* the orders a dict may list the addresses of S in
RECURSIVE ItemOrders(_)
ItemOrders(S) ==
    IF S = {} THEN {<<>>}
    ELSE UNION {{<<a>> \o rest : rest \in ItemOrders(S \ {a})} : a \in S}

\* ----------------- neon_tx_send_iterative_strategy.py: the step tx lists
\* the EVM steps of one iteration, of an emulation, and the resize iterations
MaxEvmStepCnt == 3
MaxEmulatedStepCnt == 7
MaxResizeIterCnt == 2

\* an iterative strategy before it builds a tx list: tx_list holds the
\* uniq_idx of the step txs built
IterativeTxList(evm_step_cnt, emulated_evm_step_cnt, resize_iter_cnt) ==
    [evm_step_cnt |-> evm_step_cnt,
     emulated_evm_step_cnt |-> emulated_evm_step_cnt,
     resize_iter_cnt |-> resize_iter_cnt,
     uniq_idx |-> 0,
     tx_list |-> <<>>,
     pc |-> "full"]

\* tx_list.append(self._build_tx())
append_build_tx(it) ==
    [it EXCEPT !.uniq_idx = @ + 1, !.tx_list = Append(@, it.uniq_idx + 1)]

\* for _ in range(additional_iter_cnt)
RECURSIVE additional_loop(_, _)
additional_loop(it, additional_iter_cnt) ==
    IF additional_iter_cnt <= 0 THEN it
    ELSE additional_loop(append_build_tx(it), additional_iter_cnt - 1)

\* the while loop with the test total_evm_step_cnt >= evm_step_cnt
RECURSIVE step_loop_whole_iterations(_, _)
step_loop_whole_iterations(it, total_evm_step_cnt) ==
    IF total_evm_step_cnt < it.evm_step_cnt THEN it
    ELSE step_loop_whole_iterations(append_build_tx(it), total_evm_step_cnt - it.evm_step_cnt)

\* while total_evm_step_cnt > 0
RECURSIVE step_loop(_, _)
step_loop(it, total_evm_step_cnt) ==
    IF total_evm_step_cnt <= 0 THEN it
    ELSE step_loop(append_build_tx(it), total_evm_step_cnt - it.evm_step_cnt)

Iterative_build_tx_list(it, total_evm_step_cnt, additional_iter_cnt) ==
    step_loop(additional_loop([it EXCEPT !.tx_list = <<>>], additional_iter_cnt),
              total_evm_step_cnt)

Iterative_build_full_tx_list(it) ==
    Iterative_build_tx_list(it, Max(it.emulated_evm_step_cnt, it.evm_step_cnt),
                            it.resize_iter_cnt + 2)

Iterative_build_complete_tx_list(it) == Iterative_build_tx_list(it, 0, 1)

\* ------------------------------------------------ mempool_stuck_tx_dict.py
\* the Neon signatures of the stuck txs and the longest list of a poll
MaxStuckTx == 3
MaxStuckTxList == 2
StuckSigs == 1..MaxStuckTx
StuckTxLists == UNION {[1..n -> StuckSigs] : n \in 0..MaxStuckTxList}

\* a dict as the sequence of its keys in the order of their insertion
StuckKeys(d) == {d[i] : i \in 1..Len(d)}
StuckPop(d, key) == SelectSeq(d, LAMBDA k : k # key)
StuckSet(d, key) == IF key \in StuckKeys(d) THEN d ELSE Append(d, key)

\* MPStuckTxDict; completed_tx_dict is the dict of the mempool
MPStuckTxDict ==
    [own_tx_dict |-> <<>>,
     external_tx_dict |-> <<>>,
     processed_tx_dict |-> <<>>,
     exc |-> ""]

\* the loop of add_external_tx_list over stuck_tx_list
RECURSIVE external_loop(_, _, _, _)
external_loop(d, completed_tx_dict, stuck_tx_list, tx_dict) ==
    IF stuck_tx_list = <<>> THEN tx_dict
    ELSE IF \/ Head(stuck_tx_list) \in StuckKeys(d.own_tx_dict)
            \/ Head(stuck_tx_list) \in StuckKeys(d.processed_tx_dict)
            \/ Head(stuck_tx_list) \in completed_tx_dict
         THEN external_loop(d, completed_tx_dict, Tail(stuck_tx_list), tx_dict)
    ELSE external_loop(d, completed_tx_dict, Tail(stuck_tx_list),
                       StuckSet(tx_dict, Head(stuck_tx_list)))

add_external_tx_list(d, completed_tx_dict, stuck_tx_list) ==
    [d EXCEPT !.exc = "",
              !.external_tx_dict = external_loop(d, completed_tx_dict, stuck_tx_list, <<>>)]

\* add_own_tx without the pop from the external dict
add_own_tx_without_pop(d, completed_tx_dict, neon_sig) ==
    IF \/ neon_sig \in StuckKeys(d.processed_tx_dict)
       \/ neon_sig \in StuckKeys(d.own_tx_dict)
       \/ neon_sig \in completed_tx_dict
    THEN [d EXCEPT !.exc = ""]
    ELSE [d EXCEPT !.exc = "", !.own_tx_dict = StuckSet(@, neon_sig)]

add_own_tx(d, completed_tx_dict, neon_sig) ==
    IF \/ neon_sig \in StuckKeys(d.processed_tx_dict)
       \/ neon_sig \in StuckKeys(d.own_tx_dict)
       \/ neon_sig \in completed_tx_dict
    THEN [d EXCEPT !.exc = ""]
    ELSE [d EXCEPT !.exc = "",
                   !.external_tx_dict = StuckPop(@, neon_sig),
                   !.own_tx_dict = StuckSet(@, neon_sig)]

\* peek_tx, None when both dicts are empty
Stuck_peek_tx(d) ==
    IF Len(d.own_tx_dict) > 0 THEN d.own_tx_dict[1]
    ELSE IF Len(d.external_tx_dict) > 0 THEN d.external_tx_dict[1]
    ELSE None

Stuck_acquire_tx(d, neon_sig) ==
    IF neon_sig \in StuckKeys(d.own_tx_dict)
    THEN [d EXCEPT !.exc = "",
                   !.own_tx_dict = StuckPop(@, neon_sig),
                   !.processed_tx_dict = StuckSet(@, neon_sig)]
    ELSE IF neon_sig \in StuckKeys(d.external_tx_dict)
    THEN [d EXCEPT !.exc = "",
                   !.external_tx_dict = StuckPop(@, neon_sig),
                   !.processed_tx_dict = StuckSet(@, neon_sig)]
    ELSE [d EXCEPT !.exc = "AssertionError"]

Stuck_skip_tx(d, neon_sig) ==
    IF neon_sig \in StuckKeys(d.own_tx_dict)
    THEN [d EXCEPT !.exc = "", !.own_tx_dict = StuckPop(@, neon_sig)]
    ELSE IF neon_sig \in StuckKeys(d.external_tx_dict)
    THEN [d EXCEPT !.exc = "", !.external_tx_dict = StuckPop(@, neon_sig)]
    ELSE IF neon_sig \in StuckKeys(d.processed_tx_dict)
    THEN [d EXCEPT !.exc = "", !.processed_tx_dict = StuckPop(@, neon_sig)]
    ELSE [d EXCEPT !.exc = "AssertionError"]

Stuck_done_tx(d, neon_sig) ==
    IF neon_sig \in StuckKeys(d.processed_tx_dict)
    THEN [d EXCEPT !.exc = "", !.processed_tx_dict = StuckPop(@, neon_sig)]
    ELSE [d EXCEPT !.exc = "KeyError"]

\* ------------------------------------------------------------ db_connect.py
\* the failed attempts of run_tx the model follows, and the slots of the
\* blocks it submits
MaxTxFail == 2
MaxTxSlot == 2
TxSlots == 1..MaxTxSlot

\* the statements of the action of submit_block_list at which the connection
\* can fail with psycopg2.OperationalError; commit is the exit of the
\* with-block of run_tx
TxStatements ==
    {"set_block_list", "set_min_used_slot", "set_latest_slot", "finalize_block_list",
     "activate_block_list", "set_finalized_slot", "commit"}

NoAction == [min_used_slot |-> 0, neon_block_queue |-> <<>>]

\* a DBConnection and the IndexerDB that writes through it.  The tables of
\* db (constants_db, sol_blocks_db) are the committed ones; in_run_tx tells
\* that run_tx is in its retry loop (time.sleep) after a failed attempt;
\* action is the lambda of that run_tx; fail_cnt counts the failed attempts
DBConnection(db) ==
    [db |-> db, in_run_tx |-> FALSE, action |-> NoAction, fail_cnt |-> 0]

\* the exit of the with-block on an exception: the rows written by the
\* attempt are rolled back, the objects in memory stay as the attempt left them
rollback(db, raised) ==
    [raised EXCEPT !.constants_db = db.constants_db,
                   !.sol_blocks_db = db.sol_blocks_db,
                   !.submitted = db.submitted]

\* _submit_block_list raising at the statement fail_at: whether the attempt
\* executes that statement, and the IndexerDB it leaves.  A setter assigns
\* the cursor in memory before it writes the row
submit_block_list_raise(db, min_used_slot, neon_block_queue, fail_at) ==
    LET new_neon_block_queue ==
            SelectSeq(neon_block_queue, LAMBDA s : ~db.neon_block[s].is_done)
        last_block == neon_block_queue[Len(neon_block_queue)]
        is_live == ~db.is_reindexing
        is_finalized == db.neon_block[last_block].is_finalized
        min_used == set_min_used_slot(db, min_used_slot)
        latest == set_latest_slot(min_used, last_block)
        finalized == finalize_block_list(latest, neon_block_queue)
        marked == submit_block_list(db, min_used_slot, neon_block_queue)
        at == CASE fail_at = "set_block_list" ->
                       [reached |-> Len(new_neon_block_queue) > 0, db |-> db]
                [] fail_at = "set_min_used_slot" ->
                       [reached |-> min_used # db, db |-> min_used]
                [] fail_at = "set_latest_slot" ->
                       [reached |-> is_live /\ latest # min_used, db |-> latest]
                [] fail_at = "finalize_block_list" ->
                       [reached |-> is_live /\ is_finalized /\ finalized # latest,
                        db |-> IF is_live THEN latest ELSE min_used]
                [] fail_at = "activate_block_list" ->
                       [reached |-> is_live /\ ~is_finalized,
                        db |-> IF is_live THEN latest ELSE min_used]
                [] fail_at = "set_finalized_slot" ->
                       [reached |-> is_live /\ is_finalized /\ finalized # latest,
                        db |-> IF is_live THEN finalized ELSE min_used]
                [] fail_at = "commit" ->
                       [reached |-> TRUE, db |-> marked]
    IN  [reached |-> at.reached, db |-> rollback(db, at.db)]

\* one pass of the while loop of run_tx over the action: it commits and
\* returns, or the connection fails at a statement and run_tx sleeps
run_tx(conn, action, fail_at) ==
    IF fail_at = "" THEN
        [conn EXCEPT !.db = submit_block_list(conn.db, action.min_used_slot,
                                              action.neon_block_queue),
                     !.in_run_tx = FALSE, !.action = NoAction]
    ELSE
        [conn EXCEPT !.db = submit_block_list_raise(conn.db, action.min_used_slot,
                                                    action.neon_block_queue, fail_at).db,
                     !.in_run_tx = TRUE, !.action = action, !.fail_cnt = @ + 1]

\* --------------------------------------------------------- mempool_client.py
\* the request threads that call the client, and the Timer threads that can
\* be alive at a time
MaxRequestThread == 2
MaxTimer == 3
RequestThreads == 1..MaxRequestThread
TimerThreads == (MaxRequestThread + 1)..(MaxRequestThread + MaxTimer)

\* MemPoolClient after __init__, whose _connect_mp connected or failed (and
\* then started a Timer).  mp_conn_lock is the thread that holds the lock, 0
\* for none; pickable_data_client tells whether the client has a working
\* connection; connect_failed whether the last connection attempt raised;
\* thread is the position of each thread: a request thread is "idle", in
\* "send" or in "reconnect"; a Timer thread is "idle" (not started), "timer"
\* (started, until it holds the lock), in "connect", "except" or "finally"
MemPoolClient(is_connected) ==
    [mp_conn_lock |-> 0,
     is_connecting |-> FALSE,
     pickable_data_client |-> is_connected,
     connect_failed |-> ~is_connected,
     thread |-> [t \in RequestThreads \cup TimerThreads |->
                    IF ~is_connected /\ t = MaxRequestThread + 1 THEN "timer" ELSE "idle"]]

\* the Timer threads that are started and have not finished _connect_mp
LiveTimers(c) == {t \in TimerThreads : c.thread[t] # "idle"}

\* threading.Timer(...).start() starts a further thread
reconnect_mp(c) ==
    IF c.is_connecting THEN c
    ELSE LET timer == CHOOSE t \in TimerThreads \ LiveTimers(c) :
                          \A u \in TimerThreads \ LiveTimers(c) : t <= u
         IN  [c EXCEPT !.is_connecting = TRUE, !.thread[timer] = "timer"]

\* _guard_conn: the thread takes the lock and enters the method
guard_conn(c, t) ==
    [c EXCEPT !.mp_conn_lock = t,
              !.thread[t] = IF t \in RequestThreads THEN "send" ELSE "connect"]

\* the exit of the with-block of _guard_conn
release(c, t) == [c EXCEPT !.mp_conn_lock = 0, !.thread[t] = "idle"]

\* a request method under _reconnecting: send_data returns or raises
send_data(c, t, raised) ==
    IF raised THEN [c EXCEPT !.pickable_data_client = FALSE, !.thread[t] = "reconnect"]
    ELSE release(c, t)

\* the except branch of _reconnecting, and the raise through _guard_conn
reconnecting(c, t) == release(reconnect_mp(c), t)

\* _connect_mp: the try block
connect_mp(c, t, raised) ==
    IF raised THEN [c EXCEPT !.connect_failed = TRUE, !.thread[t] = "except"]
    ELSE [c EXCEPT !.pickable_data_client = TRUE, !.connect_failed = FALSE,
                   !.thread[t] = "finally"]

\* _connect_mp: the except branch
connect_mp_except(c, t) ==
    [reconnect_mp([c EXCEPT !.is_connecting = FALSE]) EXCEPT !.thread[t] = "finally"]

\* _connect_mp: the finally branch, and the exit of _guard_conn
connect_mp_finally(c, t) == release([c EXCEPT !.is_connecting = FALSE], t)

\* ------------------------------------------------------------ state
VARIABLES
    capacity,                     \* MPTxSchedule._capacity
    capacity_high_watermark,      \* MPTxSchedule._capacity_high_watermark
    tx_hash_dict,                 \* MPTxRequestDict._tx_hash_dict
    tx_sender_nonce_dict,         \* MPTxRequestDict._tx_sender_nonce_dict
    tx_gas_price_queue,           \* pending txs, highest gas price first
    tx_gapped_gas_price_queue,    \* gapped txs, highest gas price first
    sender_pool_dict,             \* sender address -> MPSenderTxPool
    sender_pool_heartbeat_queue,  \* pools, latest heartbeat first
    sender_pool_queue,            \* queued pools, highest gas price last
    suspended_sender_set,
    now,                          \* int(time.time())
    executing,                    \* txs acquired by the executor, result pending
    sender,                       \* the SolTxListSender and its running send()
    worker,                       \* a worker of the executor and the tx it executes
    holder,                       \* a holder-backed strategy and its holder account
    indexer_db,                   \* the IndexerDB, its tables and the blocks of the indexer
    indexer,                      \* the Indexer, its loop and the slots of the chain
    indexer_app,                  \* the NeonIndexerApp and its reindexing ranges
    solana,                       \* the SolInteractor and its running request
    account_info,                 \* a call of get_account_info_list of the SolInteractor
    gas_price,                    \* the MPGasPriceTaskLoop and its windows
    indexer_base,                 \* a call of _get_start_slot_from_config
    gas_tank,                     \* the gas tank and its airdrop tables
    iterative,                    \* an iterative strategy and the step txs it builds
    stuck_tx_dict,                \* the MPStuckTxDict of the mempool
    db_conn,                      \* the DBConnection of the indexer and the IndexerDB that writes through it
    mp_client                     \* the MemPoolClient of the proxy and the threads that use it

mpVars == <<tx_hash_dict, tx_sender_nonce_dict, tx_gas_price_queue,
            tx_gapped_gas_price_queue, sender_pool_dict,
            sender_pool_heartbeat_queue, sender_pool_queue, suspended_sender_set>>

mempoolVars == <<capacity, capacity_high_watermark, tx_hash_dict, tx_sender_nonce_dict,
                 tx_gas_price_queue, tx_gapped_gas_price_queue, sender_pool_dict,
                 sender_pool_heartbeat_queue, sender_pool_queue, suspended_sender_set,
                 now, executing>>

vars == <<mempoolVars, sender, worker, holder, indexer_db, indexer, indexer_app, solana, account_info, gas_price, indexer_base, gas_tank, iterative, stuck_tx_dict, db_conn, mp_client>>

\* the variables an action of one part of the program leaves alone
nonMempool == <<sender, worker, holder, indexer_db, indexer, indexer_app, solana, account_info, gas_price, indexer_base, gas_tank, iterative, stuck_tx_dict, db_conn, mp_client>>
nonSender == <<mempoolVars, worker, holder, indexer_db, indexer, indexer_app, solana, account_info, gas_price, indexer_base, gas_tank, iterative, stuck_tx_dict, db_conn, mp_client>>
nonWorker == <<mempoolVars, sender, holder, indexer_db, indexer, indexer_app, solana, account_info, gas_price, indexer_base, gas_tank, iterative, stuck_tx_dict, db_conn, mp_client>>
nonHolder == <<mempoolVars, sender, worker, indexer_db, indexer, indexer_app, solana, account_info, gas_price, indexer_base, gas_tank, iterative, stuck_tx_dict, db_conn, mp_client>>
nonIndexerDB == <<mempoolVars, sender, worker, holder, indexer, indexer_app, solana, account_info, gas_price, indexer_base, gas_tank, iterative, stuck_tx_dict, db_conn, mp_client>>
nonIndexer == <<mempoolVars, sender, worker, holder, indexer_db, indexer_app, solana, account_info, gas_price, indexer_base, gas_tank, iterative, stuck_tx_dict, db_conn, mp_client>>
nonIndexerApp == <<mempoolVars, sender, worker, holder, indexer_db, indexer, solana, account_info, gas_price, indexer_base, gas_tank, iterative, stuck_tx_dict, db_conn, mp_client>>
nonSolana == <<mempoolVars, sender, worker, holder, indexer_db, indexer, indexer_app, account_info, gas_price, indexer_base, gas_tank, iterative, stuck_tx_dict, db_conn, mp_client>>
nonAccountInfo == <<mempoolVars, sender, worker, holder, indexer_db, indexer, indexer_app, solana, gas_price, indexer_base, gas_tank, iterative, stuck_tx_dict, db_conn, mp_client>>
nonGasPrice == <<mempoolVars, sender, worker, holder, indexer_db, indexer, indexer_app, solana, account_info, indexer_base, gas_tank, iterative, stuck_tx_dict, db_conn, mp_client>>
nonIndexerBase == <<mempoolVars, sender, worker, holder, indexer_db, indexer, indexer_app, solana, account_info, gas_price, gas_tank, iterative, stuck_tx_dict, db_conn, mp_client>>
nonGasTank == <<mempoolVars, sender, worker, holder, indexer_db, indexer, indexer_app, solana, account_info, gas_price, indexer_base, iterative, stuck_tx_dict, db_conn, mp_client>>
nonIterative == <<mempoolVars, sender, worker, holder, indexer_db, indexer, indexer_app, solana, account_info, gas_price, indexer_base, gas_tank, stuck_tx_dict, db_conn, mp_client>>
nonStuck == <<mempoolVars, sender, worker, holder, indexer_db, indexer, indexer_app, solana, account_info, gas_price, indexer_base, gas_tank, iterative, db_conn, mp_client>>
nonDBConn == <<mempoolVars, sender, worker, holder, indexer_db, indexer, indexer_app, solana, account_info, gas_price, indexer_base, gas_tank, iterative, stuck_tx_dict, mp_client>>
nonClient == <<mempoolVars, sender, worker, holder, indexer_db, indexer, indexer_app, solana, account_info, gas_price, indexer_base, gas_tank, iterative, stuck_tx_dict, db_conn>>

\* the mempool as one record; pool holds a pool object for every sender, of
\* which those of dict are in _sender_pool_dict
State ==
    [capacity |-> capacity,
     capacity_high_watermark |-> capacity_high_watermark,
     hash |-> tx_hash_dict,
     sn |-> tx_sender_nonce_dict,
     pq |-> tx_gas_price_queue,
     gq |-> tx_gapped_gas_price_queue,
     pool |-> [s \in Senders |-> IF s \in DOMAIN sender_pool_dict
                                 THEN sender_pool_dict[s] ELSE NewPool(now)],
     dict |-> DOMAIN sender_pool_dict,
     hbq |-> sender_pool_heartbeat_queue,
     spq |-> sender_pool_queue,
     susp |-> suspended_sender_set,
     code |-> "",
     err |-> ""]

\* the part of the record that is kept between calls
Stored(m) ==
    <<m.hash, m.sn, m.pq, m.gq, [s \in m.dict |-> m.pool[s]], m.hbq, m.spq, m.susp>>

Store(m) ==
    /\ tx_hash_dict' = m.hash
    /\ tx_sender_nonce_dict' = m.sn
    /\ tx_gas_price_queue' = m.pq
    /\ tx_gapped_gas_price_queue' = m.gq
    /\ sender_pool_dict' = [s \in m.dict |-> m.pool[s]]
    /\ sender_pool_heartbeat_queue' = m.hbq
    /\ sender_pool_queue' = m.spq
    /\ suspended_sender_set' = m.susp

\* MPTxSchedule.__init__(capacity, capacity_high_watermark, chain_id)
InitWith(cap) ==
    /\ capacity = cap
    /\ capacity_high_watermark = set_capacity_high_watermark(cap, HighWatermarkPct)
    /\ tx_hash_dict = {}
    /\ tx_sender_nonce_dict = <<>>
    /\ tx_gas_price_queue = <<>>
    /\ tx_gapped_gas_price_queue = <<>>
    /\ sender_pool_dict = <<>>
    /\ sender_pool_heartbeat_queue = <<>>
    /\ sender_pool_queue = <<>>
    /\ suspended_sender_set = {}
    /\ now = 0
    /\ executing = {}

\* the possible iteration orders of a set of sender addresses
Orders(S) == {o \in [1..Cardinality(S) -> S] :
                 \A i, j \in 1..Cardinality(S) : i # j => o[i] # o[j]}

AddTxOf(Txs, Cnts, Ss) ==
    \E tx \in Txs, cnt \in Cnts, order \in Orders(Ss) :
        /\ Store(add_tx(State, tx, cnt, now, order))
        /\ UNCHANGED <<nonMempool, capacity, capacity_high_watermark, now, executing>>

\* the executor loop: tx = peek_top_tx(); acquire_tx(tx)
AcquireTx ==
    /\ Len(sender_pool_queue) > 0
    /\ IF peek_top_tx_raises(State)
       THEN UNCHANGED vars
       ELSE LET tx == peek_top_tx(State)
                m == acquire_tx(State, tx)
            IN  /\ Store(m)
                /\ executing' = IF m.err = "" THEN executing \cup {tx} ELSE executing
                /\ UNCHANGED <<nonMempool, capacity, capacity_high_watermark, now>>

DoneTxOf(Cnts) ==
    \E tx \in executing, cnt \in Cnts :
        /\ Store(done_tx(State, tx, cnt))
        /\ executing' = executing \ {tx}
        /\ UNCHANGED <<nonMempool, capacity, capacity_high_watermark, now>>

\* fail_tx is _done_tx, as done_tx
FailTxOf(Cnts) ==
    \E tx \in executing, cnt \in Cnts :
        /\ Store(done_tx(State, tx, cnt))
        /\ executing' = executing \ {tx}
        /\ UNCHANGED <<nonMempool, capacity, capacity_high_watermark, now>>

CancelTxOf(Cnts) ==
    \E tx \in executing, cnt \in Cnts :
        /\ Store(cancel_tx(State, tx, cnt))
        /\ executing' = executing \ {tx}
        /\ UNCHANGED <<nonMempool, capacity, capacity_high_watermark, now>>

SetSenderStateTxCntOf(Ss, Cnts) ==
    \E s \in Ss, cnt \in Cnts :
        /\ Store(set_sender_state_tx_cnt(State, s, cnt))
        /\ UNCHANGED <<nonMempool, capacity, capacity_high_watermark, now, executing>>

DropStuckTxOf(Txs) ==
    \E tx \in Txs :
        /\ Store(drop_stuck_tx(State, tx))
        /\ UNCHANGED <<nonMempool, capacity, capacity_high_watermark, now, executing>>

DropExpiredSenderPoolsOf(eviction_timeout_sec) ==
    /\ Store(drop_expired_sender_pools(State, eviction_timeout_sec, now))
    /\ UNCHANGED <<nonMempool, capacity, capacity_high_watermark, now, executing>>

\* ---- the wide specification: all senders, nonces 0..WideMaxNonce
\* no tx list sender is at work in the mempool specifications
SenderIdle == sender = SolTxListSender(CHOOSE config \in Configs : TRUE)

WorkerIdle == worker = Worker(MaxRetryOnFail)

HolderIdle == holder = HolderStrategy(MaxRetryOnFail, FALSE, FALSE, 0, NoHolder)

\* the parts of the program next to the mempool, the tx list sender and the
\* worker are idle
IndexerDBIdle == indexer_db = IndexerDB(FALSE)

IndexerIdle == indexer = Indexer(FALSE, 0, 0)

IndexerAppIdle == indexer_app = NeonIndexerApp(1, 1, 0, 0, <<>>)

SolanaIdle == solana = SolInteractor(0)

AccountInfoIdle == account_info = AccountInfoCall(0, [i \in 1..(MaxAccountChunks + 1) |-> "value"])

GasPriceIdle == gas_price = MPGasPriceTaskLoop(1)

IndexerBaseIdle == indexer_base = StartSlotCall(<<"LATEST">>, None, 0)

GasTankIdle == gas_tank = GasTank

IterativeIdle == iterative = IterativeTxList(1, 0, 0)

StuckIdle == stuck_tx_dict = MPStuckTxDict

DBConnIdle == db_conn = DBConnection(IndexerDB(FALSE))

ClientIdle == mp_client = MemPoolClient(TRUE)

OthersIdle ==
    /\ HolderIdle /\ IndexerDBIdle /\ IndexerIdle /\ IndexerAppIdle /\ SolanaIdle
    /\ AccountInfoIdle /\ GasPriceIdle /\ IndexerBaseIdle /\ GasTankIdle /\ IterativeIdle /\ StuckIdle /\ DBConnIdle /\ ClientIdle

Init == InitWith(WideCapacity) /\ SenderIdle /\ WorkerIdle /\ OthersIdle
AddTx == AddTxOf(WideTxs, WideCnts, Senders)
DoneTx == DoneTxOf(WideCnts)
FailTx == FailTxOf(WideCnts)
CancelTx == CancelTxOf(WideCnts)
SetSenderStateTxCnt == SetSenderStateTxCntOf(Senders, WideCnts)
DropStuckTx == DropStuckTxOf(WideTxs)
DropExpiredSenderPools == DropExpiredSenderPoolsOf(0)

Next ==
    \/ AddTx
    \/ AcquireTx
    \/ DoneTx
    \/ FailTx
    \/ CancelTx
    \/ SetSenderStateTxCnt
    \/ DropStuckTx
    \/ DropExpiredSenderPools

Spec == Init /\ [][Next]_vars

\* ---- the deep specification: one sender, nonces 0..DeepMaxNonce
DeepInit == InitWith(DeepCapacity) /\ SenderIdle /\ WorkerIdle /\ OthersIdle
DeepAddTx == AddTxOf(DeepTxs, DeepCnts, {1})
DeepDoneTx == DoneTxOf(DeepCnts)
DeepFailTx == FailTxOf(DeepCnts)
DeepCancelTx == CancelTxOf(DeepCnts)
DeepSetSenderStateTxCnt == SetSenderStateTxCntOf({1}, DeepCnts)
DeepDropStuckTx == DropStuckTxOf(DeepTxs)

DeepNext ==
    \/ DeepAddTx
    \/ AcquireTx
    \/ DeepDoneTx
    \/ DeepFailTx
    \/ DeepCancelTx
    \/ DeepSetSenderStateTxCnt
    \/ DeepDropStuckTx
    \/ DropExpiredSenderPools

SpecDeep == DeepInit /\ [][DeepNext]_vars

\* ---- the tx list sender: one SolTxListSender object and its callers
\* the tx lists of the callers
SolTxLists == {<<>>} \cup {<<t>> : t \in SolTxs}
                     \cup {<<p[1], p[2]>> : p \in {q \in SolTxs \X SolTxs : q[1] # q[2]}}

\* the answers of the network for the txs of list: a receipt or none
ReceiptsOf(list) == [{list[i] : i \in 1..Len(list)} -> Receipts \cup {NoReceipt}]

\* the random draws of the fuzzing: none when fuzz_testing is off
FuzzBlockHashes(s) ==
    IF s.config.fuzz_testing
    THEN [{s.tx_list[i] : i \in 1..Len(s.tx_list)} -> BlockHashes \cup {None}]
    ELSE {[t \in {s.tx_list[i] : i \in 1..Len(s.tx_list)} |-> None]}

FuzzSkipped(s) ==
    IF s.config.fuzz_testing THEN SUBSET {s.tx_list[i] : i \in 1..Len(s.tx_list)} ELSE {{}}

SenderInit ==
    /\ InitWith(WideCapacity)
    /\ sender \in {SolTxListSender(config) : config \in Configs}
    /\ WorkerIdle
    /\ OthersIdle

\* SolTxListSender(config, solana, signer)
SenderNew ==
    /\ sender.pc = "idle"
    /\ sender' = SolTxListSender(sender.config)
    /\ UNCHANGED nonSender

SenderSend ==
    /\ sender.pc = "idle"
    /\ \E tx_list \in SolTxLists, fresh \in SUBSET SolTxs :
           sender' = send(sender, tx_list, fresh)
    /\ UNCHANGED nonSender

SenderSignTxList ==
    /\ sender.pc = "sign"
    /\ \E recent \in BlockHashes, fuzz \in FuzzBlockHashes(sender) :
           sender' = sign_round(sender, recent, fuzz)
    /\ UNCHANGED nonSender

SenderSendTxList ==
    /\ sender.pc = "send"
    /\ \E skipped \in FuzzSkipped(sender), result \in ReceiptsOf(sender.tx_list) :
           sender' = send_round([sender EXCEPT !.rounds = @ + 1], skipped, result)
    /\ UNCHANGED nonSender

SenderWaitForTxReceiptList ==
    /\ sender.pc = "wait"
    /\ sender' = wait_for_tx_receipt_list(sender)
    /\ UNCHANGED nonSender

SenderWaitForConfirmation ==
    /\ sender.pc = "confirm"
    /\ \E is_confirmed \in BOOLEAN :
           sender' = wait_for_confirmation_of_tx_list(sender, is_confirmed)
    /\ UNCHANGED nonSender

SenderGetTxReceiptList ==
    /\ sender.pc = "receipt"
    /\ \E receipt \in ReceiptsOf(sender.tx_state_list) :
           sender' = get_tx_receipt_list(sender, receipt)
    /\ UNCHANGED nonSender

SenderStep ==
    \/ SenderSignTxList
    \/ SenderSendTxList
    \/ SenderWaitForTxReceiptList
    \/ SenderWaitForConfirmation
    \/ SenderGetTxReceiptList

SenderNext ==
    \/ SenderNew
    \/ SenderSend
    \/ SenderSignTxList
    \/ SenderSendTxList
    \/ SenderWaitForTxReceiptList
    \/ SenderWaitForConfirmation
    \/ SenderGetTxReceiptList

SpecSender == SenderInit /\ [][SenderNext]_vars

\* a send() is running
Sending == sender.pc # "idle"

\* a running send() takes its next step: WF_sender(SenderStep), written out;
\* ENABLED <<SenderStep>>_sender is Sending, and a step that changes sender
\* while Sending is a SenderStep
SenderFairness == []<>(~Sending) \/ []<><<Sending>>_sender

SpecSenderFair == SpecSender /\ SenderFairness

\* ------------------------------------------------------ worker actions
WorkerInit ==
    /\ InitWith(WideCapacity)
    /\ SenderIdle
    /\ worker \in {Worker(retry_on_fail) : retry_on_fail \in 1..MaxRetryOnFail}
    /\ OthersIdle

\* the worker gets another tx, with a new exec-config
WorkerNewTx ==
    /\ worker.pc = "idle"
    /\ worker' = Worker(worker.retry_on_fail)
    /\ UNCHANGED nonWorker

\* execute_neon_tx, for a new tx or for one that was rescheduled
WorkerExecuteNeonTx ==
    /\ worker.pc = "idle"
    /\ worker.code \in {"", "Reschedule"}
    /\ \E info \in AccountInfos : worker' = execute(worker, info)
    /\ UNCHANGED nonWorker

WorkerValidate ==
    /\ worker.pc = "validate"
    /\ \E is_valid \in BOOLEAN, info \in AccountInfos :
           worker' = validate(worker, is_valid, info)
    /\ UNCHANGED nonWorker

WorkerPrepBeforeEmulate ==
    /\ worker.pc = "prep"
    /\ \E prep \in {"True", "False"} \cup StrategyErrors,
          emulated \in AccountInfos, info \in AccountInfos :
           worker' = prep_before_emulate(worker, prep, emulated, info)
    /\ UNCHANGED nonWorker

WorkerStrategyExecute ==
    /\ worker.pc = "execute"
    /\ ~IsIterative(worker.idx)
    /\ \E result \in {"Result"} \cup StrategyErrors, info \in AccountInfos :
           worker' = strategy_execute(worker, result, info)
    /\ UNCHANGED nonWorker

WorkerIterativeSend ==
    /\ worker.pc \in {"execute", "complete", "cancel"}
    /\ IsIterative(worker.idx)
    /\ \E sent \in {""} \cup StrategyErrors, tx_state_list \in TxStateLists,
          info \in AccountInfos :
           worker' = Iterative_send(worker, sent, tx_state_list, info)
    /\ UNCHANGED nonWorker

WorkerNext ==
    \/ WorkerNewTx
    \/ WorkerExecuteNeonTx
    \/ WorkerValidate
    \/ WorkerPrepBeforeEmulate
    \/ WorkerStrategyExecute
    \/ WorkerIterativeSend

SpecWorker == WorkerInit /\ [][WorkerNext]_vars

\* ------------------------------------------- holder strategy actions
HolderInit ==
    /\ InitWith(WideCapacity)
    /\ SenderIdle
    /\ WorkerIdle
    /\ ClientIdle
    /\ DBConnIdle
    /\ StuckIdle
    /\ IterativeIdle
    /\ GasTankIdle
    /\ IndexerBaseIdle
    /\ GasPriceIdle
    /\ AccountInfoIdle
    /\ SolanaIdle
    /\ IndexerAppIdle
    /\ IndexerIdle
    /\ IndexerDBIdle
    /\ holder \in {HolderStrategy(retry_on_fail, is_stuck_tx, has_sol_tx, len, info) :
                       retry_on_fail \in 1..MaxRetryOnFail, is_stuck_tx \in BOOLEAN,
                       has_sol_tx \in BOOLEAN, len \in HolderMsgLens, info \in HolderInfos}

\* the executor starts the strategy, which is valid
HolderStart ==
    /\ holder.pc = "idle"
    /\ holder.code = ""
    /\ holder' = [holder EXCEPT !.pc = "prep"]
    /\ UNCHANGED nonHolder

HolderPrepBeforeEmulate ==
    /\ holder.pc = "prep"
    /\ holder' = Holder_prep_before_emulate(holder)
    /\ UNCHANGED nonHolder

\* the txs of the list get on the chain in any order
HolderWrite ==
    /\ holder.pc = "send"
    /\ \E tx \in holder.tx_list : holder' = Holder_write(holder, tx)
    /\ UNCHANGED nonHolder

HolderSent ==
    /\ holder.pc = "send"
    /\ holder.tx_list = {}
    /\ holder' = Holder_sent(holder)
    /\ UNCHANGED nonHolder

HolderUpdateAfterEmulate ==
    /\ holder.pc = "emulate"
    /\ holder' = Holder_update_after_emulate(holder)
    /\ UNCHANGED nonHolder

HolderExecute ==
    /\ holder.pc = "execute"
    /\ holder' = Holder_execute(holder)
    /\ UNCHANGED nonHolder

HolderNext ==
    \/ HolderStart
    \/ HolderPrepBeforeEmulate
    \/ HolderWrite
    \/ HolderSent
    \/ HolderUpdateAfterEmulate
    \/ HolderExecute

SpecHolder == HolderInit /\ [][HolderNext]_vars

\* ------------------------------------------------- indexer database actions
IndexerDBInit ==
    /\ InitWith(WideCapacity)
    /\ SenderIdle
    /\ WorkerIdle
    /\ ClientIdle
    /\ DBConnIdle
    /\ StuckIdle
    /\ IterativeIdle
    /\ GasTankIdle
    /\ IndexerBaseIdle
    /\ GasPriceIdle
    /\ AccountInfoIdle
    /\ SolanaIdle
    /\ IndexerAppIdle
    /\ IndexerIdle
    /\ HolderIdle
    /\ indexer_db \in {IndexerDB(is_reindexing) : is_reindexing \in BOOLEAN}

\* the indexer locates a block of the chain it has no object for; on a
\* finalized range _complete_neon_block marks it finalized
IndexerDBNewBlock ==
    /\ \E s \in Slots, is_finalized \in BOOLEAN :
        /\ ~indexer_db.neon_block[s].exists
        /\ ~indexer_db.is_reindexing \/ is_finalized
        /\ indexer_db' = [indexer_db EXCEPT !.neon_block[s] = NeonIndexedBlockInfo(is_finalized)]
    /\ UNCHANGED nonIndexerDB

\* the finalized range reaches a block that was decoded as a confirmed one
IndexerDBMarkFinalized ==
    /\ \E s \in Slots :
        /\ indexer_db.neon_block[s].exists
        /\ ~indexer_db.neon_block[s].is_finalized
        /\ indexer_db' = [indexer_db EXCEPT !.neon_block[s].is_finalized = TRUE]
    /\ UNCHANGED nonIndexerDB

\* _save_checkpoint: the queue holds blocks of the indexer by ascending slot
IndexerDBSubmitBlockList ==
    /\ \E S \in SUBSET Slots \ {{}} :
        /\ \A s \in S : indexer_db.neon_block[s].exists
        /\ \E min_used_slot \in {0, SlotQueue(S)[1]} :
               indexer_db' = submit_block_list(indexer_db, min_used_slot, SlotQueue(S))
    /\ UNCHANGED nonIndexerDB

IndexerDBNext ==
    \/ IndexerDBNewBlock
    \/ IndexerDBMarkFinalized
    \/ IndexerDBSubmitBlockList

SpecIndexerDB == IndexerDBInit /\ [][IndexerDBNext]_vars

\* ---------------------------------------------------------- indexer actions
IndexerInit ==
    /\ InitWith(WideCapacity)
    /\ SenderIdle
    /\ WorkerIdle
    /\ ClientIdle
    /\ DBConnIdle
    /\ StuckIdle
    /\ IterativeIdle
    /\ GasTankIdle
    /\ IndexerBaseIdle
    /\ GasPriceIdle
    /\ AccountInfoIdle
    /\ SolanaIdle
    /\ IndexerAppIdle
    /\ HolderIdle
    /\ IndexerDBIdle
    /\ indexer \in {Indexer(FALSE, start_slot, 0) : start_slot \in 0..MaxSlot}
                   \cup {Indexer(TRUE, r.start_slot, r.stop_slot) : r \in IndexerRanges}

\* the chain confirms and finalizes slots
SolanaNewSlot ==
    /\ \/ /\ indexer.sol_confirmed < MaxSlot
          /\ indexer' = [indexer EXCEPT !.sol_confirmed = @ + 1]
       \/ /\ indexer.sol_finalized < indexer.sol_confirmed
          /\ indexer' = [indexer EXCEPT !.sol_finalized = @ + 1]
    /\ UNCHANGED nonIndexer

IndexerRun ==
    /\ indexer.pc = "run"
    /\ indexer' = run(indexer)
    /\ UNCHANGED nonIndexer

IndexerHasNewBlocks ==
    /\ indexer.pc = "has_new_blocks"
    /\ indexer' = has_new_blocks(indexer)
    /\ UNCHANGED nonIndexer

IndexerProcessSolanaBlocks ==
    /\ indexer.pc = "process"
    /\ \E history \in {"ok", "SolHistoryNotFound", "BaseException"} :
           indexer' = process_solana_blocks(indexer, history)
    /\ UNCHANGED nonIndexer

\* a step of the loop of _run
IndexerStep ==
    \/ IndexerRun
    \/ IndexerHasNewBlocks
    \/ IndexerProcessSolanaBlocks

IndexerNext ==
    \/ SolanaNewSlot
    \/ IndexerRun
    \/ IndexerHasNewBlocks
    \/ IndexerProcessSolanaBlocks

SpecIndexer == IndexerInit /\ [][IndexerNext]_vars

\* the process of the indexer runs: a loop that can take a step takes one
IndexerFairness == []<>(~ENABLED <<IndexerStep>>_indexer) \/ []<><<IndexerStep>>_indexer

SpecIndexerFair == SpecIndexer /\ IndexerFairness

\* ------------------------------------------------------ indexer app actions
IndexerAppInit ==
    /\ InitWith(WideCapacity)
    /\ SenderIdle
    /\ WorkerIdle
    /\ ClientIdle
    /\ DBConnIdle
    /\ StuckIdle
    /\ IterativeIdle
    /\ GasTankIdle
    /\ IndexerBaseIdle
    /\ GasPriceIdle
    /\ AccountInfoIdle
    /\ SolanaIdle
    /\ HolderIdle
    /\ IndexerDBIdle
    /\ IndexerIdle
    /\ indexer_app \in
           {NeonIndexerApp(reindex_max_range_cnt, reindex_range_len, reindex_start_slot,
                           start_slot, db_list) :
                reindex_max_range_cnt \in 1..MaxRangeCnt,
                reindex_range_len \in 1..MaxRangeLen,
                reindex_start_slot \in 0..MaxStartSlot,
                start_slot \in 0..MaxStartSlot,
                db_list \in DbLists}

\* _start_reindexing: the new ranges are added to those of persistence
IndexerAppAddNewReindexRanges ==
    /\ ~indexer_app.is_added
    /\ indexer_app' = add_new_reindex_ranges(indexer_app)
    /\ UNCHANGED nonIndexerApp

IndexerAppNext == IndexerAppAddNewReindexRanges

SpecIndexerApp == IndexerAppInit /\ [][IndexerAppNext]_vars

\* ------------------------------------------------- solana interactor actions
SolanaInit ==
    /\ InitWith(WideCapacity)
    /\ SenderIdle
    /\ WorkerIdle
    /\ ClientIdle
    /\ DBConnIdle
    /\ StuckIdle
    /\ IterativeIdle
    /\ GasTankIdle
    /\ IndexerBaseIdle
    /\ GasPriceIdle
    /\ AccountInfoIdle
    /\ HolderIdle
    /\ IndexerDBIdle
    /\ IndexerIdle
    /\ IndexerAppIdle
    /\ solana \in {SolInteractor(retry_on_fail) : retry_on_fail \in 0..MaxPostRetry}

SolanaSendPostRequest ==
    /\ solana.pc = "idle"
    /\ solana.result = ""
    /\ solana' = send_post_request(solana)
    /\ UNCHANGED nonSolana

SolanaSimpleSendPostRequest ==
    /\ solana.pc = "post"
    /\ \E outcome \in PostOutcomes : solana' = simple_send_post_request(solana, outcome)
    /\ UNCHANGED nonSolana

SolanaNext ==
    \/ SolanaSendPostRequest
    \/ SolanaSimpleSendPostRequest

SpecSolana == SolanaInit /\ [][SolanaNext]_vars

\* --------------------------------------------------- account read actions
AccountInfoInit ==
    /\ InitWith(WideCapacity)
    /\ SenderIdle
    /\ WorkerIdle
    /\ ClientIdle
    /\ DBConnIdle
    /\ StuckIdle
    /\ IterativeIdle
    /\ GasTankIdle
    /\ IndexerBaseIdle
    /\ GasPriceIdle
    /\ HolderIdle
    /\ IndexerDBIdle
    /\ IndexerIdle
    /\ IndexerAppIdle
    /\ SolanaIdle
    /\ account_info \in {AccountInfoCall(src_len, rpc) :
                            src_len \in AccountListLens, rpc \in RpcOutcomeLists}

AccountInfoGetList ==
    /\ account_info.pc = "call"
    /\ account_info' = get_account_info_list(account_info)
    /\ UNCHANGED nonAccountInfo

AccountInfoNext == AccountInfoGetList

SpecAccountInfo == AccountInfoInit /\ [][AccountInfoNext]_vars

\* ------------------------------------------------- gas price task actions
GasPriceInit ==
    /\ InitWith(WideCapacity)
    /\ SenderIdle
    /\ WorkerIdle
    /\ ClientIdle
    /\ DBConnIdle
    /\ StuckIdle
    /\ IterativeIdle
    /\ GasTankIdle
    /\ IndexerBaseIdle
    /\ HolderIdle
    /\ IndexerDBIdle
    /\ IndexerIdle
    /\ IndexerAppIdle
    /\ SolanaIdle
    /\ AccountInfoIdle
    /\ gas_price \in {MPGasPriceTaskLoop(count) : count \in 1..MaxPriceCount}

\* the result of a gas price request comes back from the executor
GasPriceProcessResult ==
    /\ gas_price.refresh_cnt < MaxRefresh
    /\ \E token_list \in TokenLists : gas_price' = process_result(gas_price, token_list)
    /\ UNCHANGED nonGasPrice

GasPriceNext == GasPriceProcessResult

SpecGasPrice == GasPriceInit /\ [][GasPriceNext]_vars

\* ----------------------------------------------------- start slot actions
IndexerBaseInit ==
    /\ InitWith(WideCapacity)
    /\ SenderIdle
    /\ WorkerIdle
    /\ ClientIdle
    /\ DBConnIdle
    /\ StuckIdle
    /\ IterativeIdle
    /\ GasTankIdle
    /\ HolderIdle
    /\ IndexerDBIdle
    /\ IndexerIdle
    /\ IndexerAppIdle
    /\ SolanaIdle
    /\ AccountInfoIdle
    /\ GasPriceIdle
    /\ indexer_base \in
           {StartSlotCall(start_slot, last_known_slot, latest_slot) :
                start_slot \in StartSlotSettings,
                last_known_slot \in {None} \cup 0..MaxKnownSlot,
                latest_slot \in 0..MaxKnownSlot}

IndexerBaseGetStartSlot ==
    /\ indexer_base.pc = "call"
    /\ indexer_base' =
           [indexer_base EXCEPT
               !.pc = "done",
               !.result = get_start_slot_from_config(indexer_base.start_slot,
                              indexer_base.last_known_slot, indexer_base.latest_slot)]
    /\ UNCHANGED nonIndexerBase

IndexerBaseNext == IndexerBaseGetStartSlot

SpecIndexerBase == IndexerBaseInit /\ [][IndexerBaseNext]_vars

\* -------------------------------------------------------- gas tank actions
GasTankInit ==
    /\ InitWith(WideCapacity)
    /\ SenderIdle
    /\ WorkerIdle
    /\ ClientIdle
    /\ DBConnIdle
    /\ StuckIdle
    /\ IterativeIdle
    /\ HolderIdle
    /\ IndexerDBIdle
    /\ IndexerIdle
    /\ IndexerAppIdle
    /\ SolanaIdle
    /\ AccountInfoIdle
    /\ GasPriceIdle
    /\ IndexerBaseIdle
    /\ gas_tank = GasTank

GasTankAllowGasLessTx ==
    \E account \in Addresses :
        /\ gas_tank' = allow_gas_less_tx(gas_tank, account)
        /\ UNCHANGED nonGasTank

GasTankProcessScheduledTrxs ==
    \E has_amount \in BOOLEAN, resp \in [Addresses -> FaucetOutcomes],
       items \in ItemOrders(gas_tank.airdrop_scheduled) :
        /\ \A a \in Addresses : gas_tank.airdropped[a] < MaxAirdrop
        /\ gas_tank' = process_scheduled_trxs(gas_tank, has_amount, items, resp)
        /\ UNCHANGED nonGasTank

GasTankNext == GasTankAllowGasLessTx \/ GasTankProcessScheduledTrxs

SpecGasTank == GasTankInit /\ [][GasTankNext]_vars

\* ------------------------------------------------ step tx list actions
IterativeInit ==
    /\ InitWith(WideCapacity)
    /\ SenderIdle
    /\ WorkerIdle
    /\ ClientIdle
    /\ DBConnIdle
    /\ StuckIdle
    /\ HolderIdle
    /\ IndexerDBIdle
    /\ IndexerIdle
    /\ IndexerAppIdle
    /\ SolanaIdle
    /\ AccountInfoIdle
    /\ GasPriceIdle
    /\ IndexerBaseIdle
    /\ GasTankIdle
    /\ iterative \in
           {IterativeTxList(evm_step_cnt, emulated_evm_step_cnt, resize_iter_cnt) :
                evm_step_cnt \in 1..MaxEvmStepCnt,
                emulated_evm_step_cnt \in 0..MaxEmulatedStepCnt,
                resize_iter_cnt \in 0..MaxResizeIterCnt}

IterativeBuildFullTxList ==
    /\ iterative.pc = "full"
    /\ iterative' = [Iterative_build_full_tx_list(iterative) EXCEPT !.pc = "complete"]
    /\ UNCHANGED nonIterative

IterativeBuildCompleteTxList ==
    /\ iterative.pc = "complete"
    /\ iterative' = [Iterative_build_complete_tx_list(iterative) EXCEPT !.pc = "done"]
    /\ UNCHANGED nonIterative

IterativeNext == IterativeBuildFullTxList \/ IterativeBuildCompleteTxList

SpecIterative == IterativeInit /\ [][IterativeNext]_vars

\* ------------------------------------------------- stuck tx dict actions
StuckInit ==
    /\ InitWith(WideCapacity)
    /\ SenderIdle
    /\ WorkerIdle
    /\ ClientIdle
    /\ DBConnIdle
    /\ HolderIdle
    /\ IndexerDBIdle
    /\ IndexerIdle
    /\ IndexerAppIdle
    /\ SolanaIdle
    /\ AccountInfoIdle
    /\ GasPriceIdle
    /\ IndexerBaseIdle
    /\ GasTankIdle
    /\ IterativeIdle
    /\ stuck_tx_dict = MPStuckTxDict

StuckAddExternalTxList ==
    \E completed_tx_dict \in SUBSET StuckSigs, stuck_tx_list \in StuckTxLists :
        /\ stuck_tx_dict' = add_external_tx_list(stuck_tx_dict, completed_tx_dict, stuck_tx_list)
        /\ UNCHANGED nonStuck

StuckAddOwnTx ==
    \E completed_tx_dict \in SUBSET StuckSigs, neon_sig \in StuckSigs :
        /\ stuck_tx_dict' = add_own_tx(stuck_tx_dict, completed_tx_dict, neon_sig)
        /\ UNCHANGED nonStuck

StuckAcquireTx ==
    \E neon_sig \in StuckSigs :
        /\ stuck_tx_dict' = Stuck_acquire_tx(stuck_tx_dict, neon_sig)
        /\ UNCHANGED nonStuck

StuckSkipTx ==
    \E neon_sig \in StuckSigs :
        /\ stuck_tx_dict' = Stuck_skip_tx(stuck_tx_dict, neon_sig)
        /\ UNCHANGED nonStuck

StuckDoneTx ==
    \E neon_sig \in StuckSigs :
        /\ stuck_tx_dict' = Stuck_done_tx(stuck_tx_dict, neon_sig)
        /\ UNCHANGED nonStuck

StuckNext ==
    \/ StuckAddExternalTxList
    \/ StuckAddOwnTx
    \/ StuckAcquireTx
    \/ StuckSkipTx
    \/ StuckDoneTx

SpecStuck == StuckInit /\ [][StuckNext]_vars

\* ------------------------------------------------- db connection actions
RunTxInit ==
    /\ InitWith(WideCapacity)
    /\ SenderIdle
    /\ WorkerIdle
    /\ ClientIdle
    /\ HolderIdle
    /\ IndexerDBIdle
    /\ IndexerIdle
    /\ IndexerAppIdle
    /\ SolanaIdle
    /\ AccountInfoIdle
    /\ GasPriceIdle
    /\ IndexerBaseIdle
    /\ GasTankIdle
    /\ IterativeIdle
    /\ StuckIdle
    /\ db_conn \in {DBConnection(IndexerDB(is_reindexing)) : is_reindexing \in BOOLEAN}

\* the indexer locates a block of the chain it has no object for
RunTxNewBlock ==
    /\ ~db_conn.in_run_tx
    /\ \E s \in TxSlots, is_finalized \in BOOLEAN :
        /\ ~db_conn.db.neon_block[s].exists
        /\ ~db_conn.db.is_reindexing \/ is_finalized
        /\ db_conn' = [db_conn EXCEPT !.db.neon_block[s] = NeonIndexedBlockInfo(is_finalized)]
    /\ UNCHANGED nonDBConn

\* the finalized range reaches a block that was decoded as a confirmed one
RunTxMarkFinalized ==
    /\ ~db_conn.in_run_tx
    /\ \E s \in TxSlots :
        /\ db_conn.db.neon_block[s].exists
        /\ ~db_conn.db.neon_block[s].is_finalized
        /\ db_conn' = [db_conn EXCEPT !.db.neon_block[s].is_finalized = TRUE]
    /\ UNCHANGED nonDBConn

\* the statements at which the attempt of the action can fail, "" for none
FailAt(conn, action) ==
    {""} \cup {fail_at \in TxStatements :
                  /\ conn.fail_cnt < MaxTxFail
                  /\ submit_block_list_raise(conn.db, action.min_used_slot,
                                             action.neon_block_queue, fail_at).reached}

\* submit_block_list: run_tx is called and runs the action for the first time
RunTxSubmitBlockList ==
    /\ ~db_conn.in_run_tx
    /\ \E S \in SUBSET TxSlots \ {{}} :
        /\ \A s \in S : db_conn.db.neon_block[s].exists
        /\ \E min_used_slot \in {0, SlotQueue(S)[1]} :
            LET action == [min_used_slot |-> min_used_slot, neon_block_queue |-> SlotQueue(S)]
            IN  \E fail_at \in FailAt(db_conn, action) :
                    db_conn' = run_tx(db_conn, action, fail_at)
    /\ UNCHANGED nonDBConn

\* run_tx wakes up, reconnects and runs the action again
RunTxRetry ==
    /\ db_conn.in_run_tx
    /\ \E fail_at \in FailAt(db_conn, db_conn.action) :
            db_conn' = run_tx(db_conn, db_conn.action, fail_at)
    /\ UNCHANGED nonDBConn

RunTxNext ==
    \/ RunTxNewBlock
    \/ RunTxMarkFinalized
    \/ RunTxSubmitBlockList
    \/ RunTxRetry

SpecRunTx == RunTxInit /\ [][RunTxNext]_vars

\* ------------------------------------------------- mempool client actions
ClientInit ==
    /\ InitWith(WideCapacity)
    /\ SenderIdle
    /\ WorkerIdle
    /\ HolderIdle
    /\ IndexerDBIdle
    /\ IndexerIdle
    /\ IndexerAppIdle
    /\ SolanaIdle
    /\ AccountInfoIdle
    /\ GasPriceIdle
    /\ IndexerBaseIdle
    /\ GasTankIdle
    /\ IterativeIdle
    /\ StuckIdle
    /\ DBConnIdle
    /\ mp_client \in {MemPoolClient(is_connected) : is_connected \in BOOLEAN}

\* a request thread calls a method of the client, or a Timer fires: the
\* thread takes the lock
ClientGuardConn ==
    /\ mp_client.mp_conn_lock = 0
    /\ \E t \in RequestThreads \cup TimerThreads :
        /\ mp_client.thread[t] = IF t \in RequestThreads THEN "idle" ELSE "timer"
        /\ mp_client' = guard_conn(mp_client, t)
    /\ UNCHANGED nonClient

\* a connection without a client raises; a start of a Timer needs a thread
CanRaise == Cardinality(LiveTimers(mp_client)) < MaxTimer

ClientSendData ==
    /\ \E t \in RequestThreads, raised \in BOOLEAN :
        /\ mp_client.thread[t] = "send"
        /\ raised => CanRaise
        /\ ~raised => mp_client.pickable_data_client
        /\ mp_client' = send_data(mp_client, t, raised)
    /\ UNCHANGED nonClient

ClientReconnecting ==
    /\ \E t \in RequestThreads :
        /\ mp_client.thread[t] = "reconnect"
        /\ mp_client' = reconnecting(mp_client, t)
    /\ UNCHANGED nonClient

ClientConnectMp ==
    /\ \E t \in TimerThreads, raised \in BOOLEAN :
        /\ mp_client.thread[t] = "connect"
        /\ raised => CanRaise
        /\ mp_client' = connect_mp(mp_client, t, raised)
    /\ UNCHANGED nonClient

ClientConnectMpExcept ==
    /\ \E t \in TimerThreads :
        /\ mp_client.thread[t] = "except"
        /\ mp_client' = connect_mp_except(mp_client, t)
    /\ UNCHANGED nonClient

ClientConnectMpFinally ==
    /\ \E t \in TimerThreads :
        /\ mp_client.thread[t] = "finally"
        /\ mp_client' = connect_mp_finally(mp_client, t)
    /\ UNCHANGED nonClient

ClientNext ==
    \/ ClientGuardConn
    \/ ClientSendData
    \/ ClientReconnecting
    \/ ClientConnectMp
    \/ ClientConnectMpExcept
    \/ ClientConnectMpFinally

SpecClient == ClientInit /\ [][ClientNext]_vars

\* a thread that runs _connect_mp keeps running
SpecClientFair ==
    /\ SpecClient
    /\ WF_vars(ClientConnectMp)
    /\ WF_vars(ClientConnectMpExcept)
    /\ WF_vars(ClientConnectMpFinally)

\* ------------------------------------------------------ properties
Pools == DOMAIN sender_pool_dict
Pool(s) == sender_pool_dict[s]

InQueue(q, item) == \E i \in 1..Len(q) : q[i] = item
PoolTxs(p) == {p.q[i] : i \in 1..Len(p.q)}

\* get_tx_by_sender_nonce(s, n) is not None, and its result
Held(m, s, n) == <<s, n>> \in DOMAIN m.sn
HeldTx(m, s, n) == m.sn[<<s, n>>]

\* the state_tx_cnt add_tx works with for tx: the larger of the counter the
\* tx carries and the counter of the sender's pool (0 for a sender without pool)
AddStateTxCnt(tx, cfg_cnt) ==
    Max(cfg_cnt, IF tx.sender \in Pools THEN Pool_state_tx_cnt(Pool(tx.sender)).v ELSE 0)

\* the stored fields of a pool agree: its state is the state its queue, its
\* processing tx and its counter give
PoolIsSynced(s) == s \in Pools => Pool(s).state = actual_state(Pool(s))

\* ---- C1
\* tx is its pool's lowest-nonce tx, at the pool's state_tx_cnt
IsNextOfPool(p, tx) ==
    /\ Len(p.q) > 0
    /\ top_tx(p) = tx
    /\ tx.nonce = p.state_tx_cnt
    /\ \A u \in PoolTxs(p) : u # tx => u.nonce > tx.nonce

\* acquire_tx(peek_top_tx()) would hand out tx now
Acquirable(tx) ==
    /\ Len(sender_pool_queue) > 0
    /\ ~peek_top_tx_raises(State)
    /\ tx = peek_top_tx(State)
    /\ acquire_tx(State, tx).err = ""

\* C1: for every sender, txs are handed out for execution in nonce order.  A
\* tx is acquired only when it is the lowest-nonce tx of its sender pool, its
\* nonce equals the pool's state_tx_cnt and no tx of the sender is processing;
\* while it is with the executor it stays the lowest-nonce tx of the pool, so
\* the next nonce is handed out only after it is done, failed or dropped; a
\* pool whose lowest nonce differs from its state_tx_cnt (a gap) is Suspended
\* and is not in the execution queue.
C1_NonceOrder ==
    /\ \A tx \in WideTxs : Acquirable(tx) =>
          /\ tx.sender \in Pools
          /\ IsNextOfPool(Pool(tx.sender), tx)
          /\ Pool(tx.sender).processing_tx = NoTx
    /\ \A tx \in executing :
          /\ tx.sender \in Pools
          /\ IsNextOfPool(Pool(tx.sender), tx)
          /\ Pool(tx.sender).processing_tx = tx
    /\ \A s \in Pools :
          (/\ Len(Pool(s).q) > 0
           /\ Pool(s).processing_tx = NoTx
           /\ top_tx(Pool(s)).nonce # Pool(s).state_tx_cnt)
          => /\ Pool(s).state = Suspended
             /\ ~InQueue(sender_pool_queue, s)

\* ---- C2
\* C2: a sender pool in state Processing has exactly one tx marked as
\* processing, which is the top (lowest-nonce) tx of the pool; and a tx that
\* is with the executor stays the processing tx and the top tx of its pool
\* whatever add_tx, eviction, capacity reduction, drop_stuck_tx or state_tx_cnt
\* update happens meanwhile.
C2_ProcessingIsTop ==
    /\ \A s \in Pools : Pool(s).state = Processing =>
          /\ Pool(s).processing_tx # NoTx
          /\ Len(Pool(s).q) > 0
          /\ top_tx(Pool(s)) = Pool(s).processing_tx
    /\ \A tx \in executing :
          /\ tx.sender \in Pools
          /\ Pool(tx.sender).state = Processing
          /\ Pool(tx.sender).processing_tx = tx
          /\ Len(Pool(tx.sender).q) > 0
          /\ top_tx(Pool(tx.sender)) = tx
          /\ tx \in tx_hash_dict

\* ---- C3
\* C3: in every reachable state the hash index and the (sender, nonce) index
\* hold the same number of txs, and that number is at least the length of the
\* pending gas-price queue plus the length of the gapped gas-price queue.
C3_IndexSizes ==
    /\ Cardinality(tx_hash_dict) = Cardinality(DOMAIN tx_sender_nonce_dict)
    /\ Cardinality(tx_hash_dict) >=
          Len(tx_gas_price_queue) + Len(tx_gapped_gas_price_queue)

\* a tx is with the executor (in the indices, in neither queue) while another
\* is pending and a third is gapped
C3_Witness ==
    /\ executing # {}
    /\ Len(tx_gas_price_queue) > 0
    /\ Len(tx_gapped_gas_price_queue) > 0
    /\ Cardinality(tx_hash_dict) >
          Len(tx_gas_price_queue) + Len(tx_gapped_gas_price_queue)

\* ---- C4
\* m is the mempool after tx went in as a pending tx: tx and the txs of its
\* sender at the nonces that follow it without a gap are in the pending
\* queue, the sender's txs beyond the first missing nonce in the gapped queue
PromotedRun(m, tx) ==
    /\ InQueue(m.pq, tx)
    /\ \A k \in (tx.nonce + 1)..DeepMaxNonce :
          Held(m, tx.sender, k) =>
             IF \A j \in tx.nonce..k : Held(m, tx.sender, j)
             THEN InQueue(m.pq, HeldTx(m, tx.sender, k))
             ELSE InQueue(m.gq, HeldTx(m, tx.sender, k))

AddedBy(m) == m.err = "" /\ m.code = "Success"

\* C4: when add_tx inserts a non-gapped tx with nonce n (below the high
\* watermark, so that no capacity rule interferes), the sender's txs with
\* nonces n+1, n+2, ... up to the first missing nonce are in the pending queue
\* when the call returns, and the txs beyond the first missing nonce are gapped.
C4_Promotion ==
    \A tx \in DeepTxs, cnt \in DeepCnts, order \in Orders({1}) :
        (/\ tx_cnt(State) < capacity_high_watermark
         /\ ~IsGappedTx(State.pool[tx.sender], tx, AddStateTxCnt(tx, cnt))
         /\ AddedBy(add_tx(State, tx, cnt, now, order)))
        => PromotedRun(add_tx(State, tx, cnt, now, order), tx)

\* ---- C5
\* m is the mempool after acquire_tx(tx) of a Queued pool's top tx
Acquired(m, tx) ==
    /\ m.err = ""
    /\ m.pool[tx.sender].state = Processing
    /\ ~InQueue(m.spq, tx.sender)
    /\ ~InQueue(m.pq, tx)
    /\ tx \in m.hash
    /\ Held(m, tx.sender, tx.nonce)
    /\ HeldTx(m, tx.sender, tx.nonce) = tx

\* C5: peek_top_tx returns nothing when no pool is Queued, and otherwise the
\* top tx of a Queued pool whose top tx has the highest gas price among the
\* Queued pools; acquire_tx of that tx moves its pool to Processing, takes the
\* pool out of the execution queue and the tx out of the pending gas-price
\* queue, and the tx stays in the hash and the (sender, nonce) index.
C5_PeekAcquire ==
    /\ (\A s \in Pools : Pool(s).state # Queued) => peek_top_tx(State) = NoTx
    /\ (\E s \in Pools : Pool(s).state = Queued) =>
          /\ Len(sender_pool_queue) > 0
          /\ ~peek_top_tx_raises(State)
          /\ \E s \in Pools :
                /\ Pool(s).state = Queued
                /\ peek_top_tx(State) = top_tx(Pool(s))
                /\ \A r \in Pools : (Pool(r).state = Queued /\ Len(Pool(r).q) > 0) =>
                      top_tx(Pool(r)).gas_price <= top_tx(Pool(s)).gas_price
          /\ Acquired(acquire_tx(State, peek_top_tx(State)), peek_top_tx(State))

\* ---- C6
\* m is the mempool after done_tx / fail_tx of the processing tx
Done(m, tx) ==
    /\ m.err = ""
    /\ tx \notin m.hash
    /\ ~Held(m, tx.sender, tx.nonce)
    /\ tx.sender \in m.dict =>
          /\ tx \notin PoolTxs(m.pool[tx.sender])
          /\ Len(m.pool[tx.sender].q) > 0
          /\ IF top_tx(m.pool[tx.sender]).nonce # m.pool[tx.sender].state_tx_cnt
             THEN /\ m.pool[tx.sender].state = Suspended
                  /\ \A u \in PoolTxs(m.pool[tx.sender]) :
                        ~InQueue(m.pq, u) /\ InQueue(m.gq, u)
             ELSE m.pool[tx.sender].state = Queued

\* C6: done_tx or fail_tx of the processing tx, whatever state_tx_cnt its
\* exec-config carries, removes the tx from its pool and from both indices; a
\* pool left empty is removed; a pool whose lowest nonce then differs from
\* its state_tx_cnt is Suspended with all its txs gapped and none pending;
\* otherwise the pool is Queued.
C6_DoneTx ==
    \A tx \in executing, cnt \in DeepCnts : Done(done_tx(State, tx, cnt), tx)

\* ---- C7
\* m is the mempool after cancel_tx of the processing tx with state_tx_cnt cnt
Cancelled(m, tx, cnt) ==
    /\ m.err = ""
    /\ tx \in m.hash
    /\ tx.sender \in m.dict
    /\ Len(m.pool[tx.sender].q) > 0
    /\ top_tx(m.pool[tx.sender]) = tx
    /\ m.pool[tx.sender].processing_tx = NoTx
    /\ IF cnt < tx.nonce
       THEN /\ m.pool[tx.sender].state = Suspended
            /\ \A u \in PoolTxs(m.pool[tx.sender]) : InQueue(m.gq, u)
       ELSE /\ m.pool[tx.sender].state = Queued
            /\ InQueue(m.pq, tx)

\* C7: cancel_tx of the processing tx, for every state_tx_cnt its exec-config
\* carries, keeps the tx in the mempool as the top tx of its pool and clears
\* the processing mark; the pool becomes Suspended with the tx and its
\* successors gapped when that state_tx_cnt is below the nonce of the tx,
\* and Queued with the tx in the pending queue otherwise.
C7_CancelTx ==
    \A tx \in executing, cnt \in WideCnts :
        Cancelled(cancel_tx(State, tx, cnt), tx, cnt)

\* ---- C8
\* distinct txs with the (sender, nonce, gas price) of the wide input txs
OtherTxs == {Tx(tx.sender, tx.nonce, tx.gas_price, 1) : tx \in WideTxs}

\* m is the mempool after a call that was rejected with code
Rejected(m, code) ==
    /\ m.err = ""
    /\ m.code = code
    /\ Stored(m) = Stored(State)

\* m is the mempool after tx replaced old: old is out, tx is in the queue
\* old was in, and the other txs of the sender are in the queue they were in
Replaced(m, old, tx) ==
    /\ m.err = ""
    /\ m.code = "Success"
    /\ old \notin m.hash
    /\ tx \in m.hash
    /\ HeldTx(m, tx.sender, tx.nonce) = tx
    /\ InQueue(State.pq, old) => InQueue(m.pq, tx)
    /\ InQueue(State.gq, old) => InQueue(m.gq, tx)
    /\ \A u \in tx_hash_dict : (u.sender = tx.sender /\ u # old) =>
          /\ InQueue(State.pq, u) <=> InQueue(m.pq, u)
          /\ InQueue(State.gq, u) <=> InQueue(m.gq, u)

\* C8: add_tx of a tx whose (sender, nonce) is held by another tx with a gas
\* price greater than or equal to its own returns Underprice and leaves the
\* mempool unchanged.  If the held tx has a strictly lower gas price (and is
\* not processing, the nonce is not below the sender's state_tx_cnt, the
\* state_tx_cnt the tx carries is not above the pool's counter and the mempool
\* is below the high watermark), the held tx is evicted and the new tx takes
\* its place in the same queue, the other txs of the sender keeping theirs.
C8_Replace ==
    \A tx \in WideTxs \cup OtherTxs, cnt \in WideCnts, order \in Orders(Senders) :
        (tx \notin tx_hash_dict /\ Held(State, tx.sender, tx.nonce)) =>
           IF HeldTx(State, tx.sender, tx.nonce).gas_price >= tx.gas_price
           THEN Rejected(add_tx(State, tx, cnt, now, order), "Underprice")
           ELSE (/\ Pool(tx.sender).processing_tx # HeldTx(State, tx.sender, tx.nonce)
                 /\ cnt <= AddStateTxCnt(tx, 0)
                 /\ tx.nonce >= AddStateTxCnt(tx, cnt)
                 /\ tx_cnt(State) < capacity_high_watermark)
                => Replaced(add_tx(State, tx, cnt, now, order),
                            HeldTx(State, tx.sender, tx.nonce), tx)

\* ---- C9
\* C9: add_tx of a tx that the mempool does not hold, whose (sender, nonce) no
\* tx holds and whose nonce is below the sender's state_tx_cnt (the larger of
\* the counter the tx carries and the pool's own counter, a processing tx
\* counting as executed) is rejected with NonceTooLow and leaves the mempool
\* unchanged, at every fill level of the mempool.
C9_NonceTooLow ==
    \A tx \in WideTxs, cnt \in WideCnts, order \in Orders(Senders) :
        (/\ tx \notin tx_hash_dict
         /\ ~Held(State, tx.sender, tx.nonce)
         /\ PoolIsSynced(tx.sender)
         /\ tx.nonce < AddStateTxCnt(tx, cnt))
        => Rejected(add_tx(State, tx, cnt, now, order), "NonceTooLow")

\* ---- C10
\* m1 is the mempool after a first add_tx(tx): a second add_tx(tx) returns
\* AlreadyKnown and changes nothing
SecondIsAlreadyKnown(m1, m2) ==
    /\ m2.err = ""
    /\ m2.code = "AlreadyKnown"
    /\ Stored(m2) = Stored(m1)

\* the mempool as the next call finds it
AfterCall(m) == [m EXCEPT !.code = "", !.err = ""]

AddTwice(tx, cnt1, cnt2, order) ==
    add_tx(AfterCall(add_tx(State, tx, cnt1, now, order)), tx, cnt2, now, order)

\* C10 as stated: whatever the first add_tx(tx) returned, a second add_tx of
\* the same tx returns AlreadyKnown and leaves every index, queue and sender
\* pool unchanged.
C10_TwiceAnyResult ==
    \A tx \in WideTxs, cnt1 \in WideCnts, cnt2 \in WideCnts, order \in Orders(Senders) :
        add_tx(State, tx, cnt1, now, order).err = ""
        => SecondIsAlreadyKnown(add_tx(State, tx, cnt1, now, order),
                                AddTwice(tx, cnt1, cnt2, order))

\* C10 (amended): when the first add_tx(tx) returned Success or AlreadyKnown,
\* a second add_tx of the same tx, with whatever state_tx_cnt, returns
\* AlreadyKnown and leaves every index, queue and sender pool unchanged.
C10_TwiceAlreadyKnown ==
    \A tx \in WideTxs, cnt1 \in WideCnts, cnt2 \in WideCnts, order \in Orders(Senders) :
        (/\ add_tx(State, tx, cnt1, now, order).err = ""
         /\ add_tx(State, tx, cnt1, now, order).code \in {"Success", "AlreadyKnown"})
        => SecondIsAlreadyKnown(add_tx(State, tx, cnt1, now, order),
                                AddTwice(tx, cnt1, cnt2, order))

\* a first add_tx put a tx in (it is pending), and the same add_tx
\* again returns AlreadyKnown
C10_Witness ==
    \E tx \in tx_hash_dict :
        /\ InQueue(tx_gas_price_queue, tx)
        /\ add_tx(State, tx, 0, now, <<1, 2>>).code = "AlreadyKnown"
        /\ Stored(add_tx(State, tx, 0, now, <<1, 2>>)) = Stored(State)

\* ---- C11
\* txs at the nonces a sender can have a gap below, one nonce beyond those of
\* the txs in the mempool included
GappedInputs ==
    {Tx(s, n, g, 0) : s \in Senders, n \in 1..(WideMaxNonce + 1), g \in GasPrices}

\* the mempool holds at least high-watermark many txs and add_tx takes tx, a
\* tx no earlier rule of add_tx answers, for gapped
GappedAtWatermark(tx, cnt) ==
    /\ tx \notin tx_hash_dict
    /\ ~Held(State, tx.sender, tx.nonce)
    /\ tx_cnt(State) >= capacity_high_watermark
    /\ tx.nonce >= AddStateTxCnt(tx, cnt)
    /\ IsGappedTx(State.pool[tx.sender], tx, AddStateTxCnt(tx, cnt))

\* C11: when the mempool holds at least high-watermark many txs, add_tx of a
\* gapped tx (nonce above the sender's pending nonce) is rejected with
\* NonceTooHigh, leaving the mempool unchanged, unless its gas price outbids
\* the lowest-priced tx in the gapped queue, in which case it is accepted.
\* (A gas price equal to the lowest gapped one is left open.)
C11_GappedAtWatermark ==
    \A tx \in GappedInputs, cnt \in WideCnts, order \in Orders(Senders) :
        GappedAtWatermark(tx, cnt) =>
           /\ (/\ Len(tx_gapped_gas_price_queue) > 0
               /\ tx.gas_price > SQ_top(tx_gapped_gas_price_queue).gas_price)
              => AddedBy(add_tx(State, tx, cnt, now, order))
           /\ (\/ Len(tx_gapped_gas_price_queue) = 0
               \/ tx.gas_price < SQ_top(tx_gapped_gas_price_queue).gas_price)
              => Rejected(add_tx(State, tx, cnt, now, order), "NonceTooHigh")

\* ---- C12
\* tx is a tx of a sender without a pool that no earlier rule of add_tx
\* answers, and the pending queue has a lowest-priced tx
NewSenderTx(tx) ==
    /\ tx.sender \notin Pools
    /\ tx \notin tx_hash_dict
    /\ ~Held(State, tx.sender, tx.nonce)
    /\ Len(tx_gas_price_queue) > 0

\* m is the mempool after add_tx accepted tx as a pending tx and dropped low
LowestDropped(m, tx, low) ==
    /\ AddedBy(m)
    /\ InQueue(m.pq, tx)
    /\ low \notin m.hash
    /\ ~InQueue(m.pq, low)
    /\ low.sender \in m.dict => low \notin PoolTxs(m.pool[low.sender])

\* C12: with the mempool filled to W*C txs (the high watermark) and lowest
\* pending gas price p, add_tx of a non-gapped tx from a new sender (its nonce
\* is the state_tx_cnt it carries) with gas price above p is accepted and the
\* lowest-priced pending tx is dropped from its pool, while add_tx of such a
\* tx with gas price below p is rejected with Underprice and changes nothing.
C12_UnderpriceEviction ==
    \A tx \in WideTxs, order \in Orders(Senders) :
        (NewSenderTx(tx) /\ tx_cnt(State) = capacity_high_watermark) =>
           /\ tx.gas_price > SQ_top(tx_gas_price_queue).gas_price
              => LowestDropped(add_tx(State, tx, tx.nonce, now, order), tx,
                               SQ_top(tx_gas_price_queue))
           /\ tx.gas_price < SQ_top(tx_gas_price_queue).gas_price
              => Rejected(add_tx(State, tx, tx.nonce, now, order), "Underprice")

\* ---- C13
\* m holds nothing of the pool p of sender s: no pool, no tx of p in an index
\* or a gas-price queue, s in no pool queue and not in the suspended set
PoolGone(m, s, p) ==
    /\ s \notin m.dict
    /\ ~InQueue(m.hbq, s)
    /\ ~InQueue(m.spq, s)
    /\ s \notin m.susp
    /\ \A u \in PoolTxs(p) :
          /\ u \notin m.hash
          /\ ~(Held(m, u.sender, u.nonce) /\ HeldTx(m, u.sender, u.nonce) = u)
          /\ ~InQueue(m.pq, u)
          /\ ~InQueue(m.gq, u)

\* m is the mempool after drop_expired_sender_pools with the given threshold
ExpiredDropped(m, threshold) ==
    /\ m.err = ""
    /\ \A s \in Pools :
          IF Pool(s).heartbeat < threshold /\ Pool(s).state # Processing
          THEN PoolGone(m, s, Pool(s))
          ELSE s \in m.dict /\ m.pool[s] = Pool(s)

\* C13: after drop_expired_sender_pools(eviction_timeout) returns (here called
\* one second after the last heartbeat, with eviction_timeout 0), no sender
\* pool remains whose heartbeat is older than now - eviction_timeout and which
\* is not Processing: every such pool is removed together with all its txs
\* from every index and queue, regardless of which other pools exist; pools
\* that are Processing or not expired are left unchanged.
C13_DropExpired ==
    ExpiredDropped(drop_expired_sender_pools(State, 0, now + 1), now + 1)

\* ---- C14
\* m is the mempool after an add_tx: it holds at most capacity many txs, and
\* every pool that lost a tx has the state its queue and counter give
WithinCapacity(m) ==
    /\ tx_cnt(m) <= m.capacity
    /\ \A s \in Pools \cap m.dict :
          (PoolTxs(Pool(s)) \ PoolTxs(m.pool[s]) # {})
          => m.pool[s].state = actual_state(m.pool[s])

\* C14: after every add_tx the number of txs in the mempool is at most
\* capacity: when an insertion pushes the count above capacity, lowest-gas-
\* price txs are dropped until the count is back at or below capacity, and the
\* state of every pool that lost a tx is re-synchronised.
C14_Capacity ==
    \A tx \in WideTxs, cnt \in WideCnts, order \in Orders(Senders) :
        add_tx(State, tx, cnt, now, order).err = ""
        => WithinCapacity(add_tx(State, tx, cnt, now, order))

\* ---- C15
\* the loop of _send_impl ends with s: no error, and no further iteration
LastRound(s) == s.err = "" /\ s.retry_idx + 1 >= s.config.retry_on_fail

RoundsWithinRetries ==
    /\ sender.rounds <= sender.config.retry_on_fail
    /\ (~Sending /\ sender.ret = "True") => Len(sender.tx_list) = 0
    /\ sender.pc = "send" =>
          \A skipped \in FuzzSkipped(sender), result \in ReceiptsOf(sender.tx_list) :
              (/\ LastRound(get_tx_list_for_send(send_tx_list(sender, skipped, result)))
               /\ Len(get_tx_list_for_send(send_tx_list(sender, skipped, result)).tx_list) > 0)
              => send_round(sender, skipped, result).ret = "NoMoreRetriesError"
    /\ sender.pc = "receipt" =>
          \A receipt \in ReceiptsOf(sender.tx_state_list) :
              (/\ LastRound(get_tx_list_for_send(
                      add_tx_state_list(sender, sender.tx_state_list, 1, receipt, "NoReceiptError")))
               /\ Len(get_tx_list_for_send(
                      add_tx_state_list(sender, sender.tx_state_list, 1, receipt, "NoReceiptError")).tx_list) > 0)
              => get_tx_receipt_list(sender, receipt).ret = "NoMoreRetriesError"

\* C15: a send() makes at most retry_on_fail sign-and-submit rounds and always
\* ends; when it returns, no tx is left to resubmit; when the last round leaves
\* txs to resubmit, it raises NoMoreRetriesError.
C15_SendTerminates == [](RoundsWithinRetries) /\ (Sending ~> ~Sending)

C15_Witness ==
    /\ ~Sending
    /\ sender.ret = "NoMoreRetriesError"
    /\ sender.config.retry_on_fail = MaxRetryOnFail
    /\ sender.rounds = MaxRetryOnFail
    /\ Len(sender.tx_list) > 0

\* ---- C16
\* the txs of the list that is about to be submitted
ListTxs(s) == {s.tx_list[i] : i \in 1..Len(s.tx_list)}

\* s is about to fetch a blockhash
FetchesBlockHash(s) == s.block_hash = None \/ s.block_hash \in s.bad_block_hash_set

\* C16: with fuzzing off, every tx of a list that is about to be submitted is
\* signed with a blockhash that is not in the bad set; and a sign step that
\* fetches a blockhash of the bad set raises BlockHashNotFound and submits
\* nothing.
C16_NoBadBlockHash ==
    ~sender.config.fuzz_testing =>
        /\ sender.pc = "send" =>
              \A t \in ListTxs(sender) :
                  /\ sender.tx[t].is_signed
                  /\ sender.tx[t].recent_block_hash \in BlockHashes \ sender.bad_block_hash_set
        /\ (sender.pc = "sign" /\ FetchesBlockHash(sender)) =>
              \A recent \in sender.bad_block_hash_set, fuzz \in FuzzBlockHashes(sender) :
                  /\ sign_round(sender, recent, fuzz).ret = "BlockHashNotFound"
                  /\ sign_round(sender, recent, fuzz).pc = "idle"
                  /\ sign_round(sender, recent, fuzz).rounds = sender.rounds

\* a list is resubmitted after a blockhash of this sender was reported not-found
C16_Witness ==
    /\ ~sender.config.fuzz_testing
    /\ sender.pc = "send"
    /\ sender.rounds >= 1
    /\ Len(sender.tx_list) = MaxSolTx
    /\ sender.bad_block_hash_set # {}

\* ---- C17
\* the senders _get_tx_list_for_send is called on by the next step of send():
\* after the submission of the list, or with the receipts of the waiting txs
Batches ==
    IF sender.pc = "send"
    THEN {send_tx_list(sender, skipped, result) :
              skipped \in FuzzSkipped(sender), result \in ReceiptsOf(sender.tx_list)}
    ELSE IF sender.pc = "receipt"
    THEN {add_tx_state_list(sender, sender.tx_state_list, 1, receipt, "NoReceiptError") :
              receipt \in ReceiptsOf(sender.tx_state_list)}
    ELSE {}

\* the statuses of the txs of s
Has(s, tx_status) == tx_status \in DOMAIN s.tx_state_list_dict

HasBlocked(s) == s.err = "" /\ Has(s, "BlockedAccountError")

HasCompleted(s) ==
    \/ Has(s, "WaitForReceipt")
    \/ Has(s, "GoodReceipt")
    \/ Has(s, "LogTruncatedError")
    \/ Has(s, "AccountAlreadyExistsError")

\* _get_tx_list_for_send puts the blocked txs of s into the list to resubmit
BlockedResubmitted(s) ==
    /\ get_tx_list_for_send(s).err = ""
    /\ ~Has(get_tx_list_for_send(s), "BlockedAccountError")
    /\ \A i \in 1..Len(s.tx_state_list_dict["BlockedAccountError"]) :
           s.tx_state_list_dict["BlockedAccountError"][i] \in ListTxs(get_tx_list_for_send(s))

\* send() raises error to its caller
Raised(s, error) ==
    /\ get_tx_list_for_send(s).err = error
    /\ finish_send(get_tx_list_for_send(s)).ret = error

Skipped(entry) == entry.outcome \in {"invalid", "WrongStrategyError"}

\* the log holds the strategies from the stored index of the tx on, in the
\* order of the list
ProbedInOrder(w) == \A i \in 1..Len(w.log) : w.log[i].idx = w.start + i - 1

\* every strategy from the stored index of the tx to the end of the list was
\* tried and did not fit
Exhausted(w) ==
    /\ w.start + Len(w.log) >= Len(StrategyList)
    /\ \A i \in 1..Len(w.log) : Skipped(w.log[i])

\* a strategy of w is running: it was valid and its index is stored
Executing(w) == w.pc \in {"prep", "execute", "complete", "cancel"}

\* the execution of w has ended after it has tried a strategy
Ended(w) == w.pc = "idle" /\ w.code # "" /\ w.log # <<>>

\* while w executes, the strategies tried so far did not fit, the next one in
\* the list is at work, and it is the stored one once it is valid
StrategyOrder(w) ==
    /\ ProbedInOrder(w)
    /\ w.start <= w.strategy_idx
    /\ w.pc # "idle" =>
           /\ w.idx = w.start + Len(w.log)
           /\ w.strategy_idx <= w.idx
           /\ \A i \in 1..Len(w.log) : Skipped(w.log[i])
    /\ Executing(w) => w.strategy_idx = w.idx

\* the execution of w ends with the first strategy that returns or raises an
\* exception other than a WrongStrategyError, with the failure of the request
\* for the tx count, or with the RuntimeError of the exhausted list
StrategyEnd(w) ==
    /\ w.exc = "RuntimeError" => w.pc = "idle" /\ Exhausted(w)
    /\ Ended(w) =>
           /\ \A i \in 1..(Len(w.log) - 1) : Skipped(w.log[i])
           /\ IF Skipped(w.log[Len(w.log)])
              THEN \/ w.exc = "SolanaUnavailableError"
                   \/ w.exc = "RuntimeError" /\ Exhausted(w)
              ELSE w.exc \in {w.log[Len(w.log)].outcome, "SolanaUnavailableError"}

\* the loop of _execute and the stored index go forward in the list
Forward ==
    worker.pc # "idle" =>
        /\ worker'.strategy_idx >= worker.strategy_idx
        /\ worker'.pc # "idle" => worker'.idx >= worker.idx

\* C18 as stated, its last part: the execution of a tx that has tried a
\* strategy fails, with an exception that asks for no reschedule, only when
\* the list is exhausted.
C18_FailsOnlyWhenExhausted ==
    Ended(worker) /\ worker.exc \notin RescheduleError \cup {""} => Exhausted(worker)

\* C18: strategies are probed in the order of the list from the stored index
\* of the tx on; the first valid one is executed and stored; after a
\* WrongStrategyError the next ones are probed, never an earlier one; the
\* execution ends with the result or the other exception of the executed
\* strategy or with a failed request for the tx count, and with the
\* RuntimeError of _execute only when the list is exhausted.
C18_StrategyOrder ==
    [](StrategyOrder(worker) /\ StrategyEnd(worker)) /\ [][Forward]_vars

\* a rescheduled tx starts at its stored index, whose strategy raises a
\* WrongStrategyError; the next one is not valid, the one after it returns
C18_Witness ==
    /\ Ended(worker)
    /\ worker.code = "Done"
    /\ worker.start > 0
    /\ Len(worker.log) = 3
    /\ worker.log[1].outcome = "WrongStrategyError"
    /\ worker.log[2].outcome = "invalid"
    /\ worker.strategy_idx = worker.start + 2

\* ---- C19
\* C19: the iterative strategy sends a CancelWithHash tx only after its normal
\* path has failed to yield a Neon result, and a tx whose normal path has
\* failed is treated as failed only after exactly one cancel attempt.
C19_OneCancelAttempt ==
    /\ worker.cancel_cnt > 0 => worker.normal_failed
    /\ worker.pc = "idle" /\ worker.normal_failed => worker.cancel_cnt = 1

\* ---- C20
\* C20: when the execution of a tx ends with a RescheduleError (blocked
\* accounts, node behind, Solana unavailable, no more retries, block hash not
\* found, commit level too low), the worker returns the Reschedule result,
\* never Failed.
C20_RescheduleResult ==
    worker.pc = "idle" /\ worker.exc \in RescheduleError \ {"BadResourceError"}
        => worker.code = "Reschedule"

\* ---- C21
\* C21: when the execution of a tx ends with the StuckTxError of a holder that
\* is Active under the signature of another tx, the worker reports the
\* StuckTx result, not Failed.
C21_StuckTxResult ==
    holder.pc = "idle" /\ holder.exc = "StuckTxError" => holder.code = "StuckTx"

\* ---- C22
\* C22: a holder that is Active under the signature of another tx raises
\* StuckTxError, a missing holder and one with another tag raise
\* BadResourceError, and no HolderWrite, step or execute tx of the tx is
\* submitted to a holder that is Active under the signature of another tx.
C22_NoTxToForeignHolder ==
    /\ ~holder.is_stuck_tx /\ IsForeign(holder.info)
           => validate_holder_account(holder).exc = "StuckTxError"
    /\ holder.info = NoHolder \/ holder.info.status = "Empty"
           => validate_holder_account(holder).exc = "BadResourceError"
    /\ ~holder.foreign_write
    /\ ~holder.foreign_exec

\* ---- C23
\* the HolderWrite txs the stage builds for the holder_msg of h
WriteTxs(h) == build_tx_loop(HolderMsg(h.holder_msg), 0, <<>>)

\* the chunks of tx_list are of 1 to holder_msg_size bytes, at the offsets 0,
\* holder_msg_size, ..., each the part of holder_msg at its offset, and they
\* end where holder_msg ends: they are disjoint and cover it once
ChunksCover(tx_list, holder_msg) ==
    /\ \A i \in 1..Len(tx_list) :
           /\ tx_list[i].offset = (i - 1) * holder_msg_size
           /\ Len(tx_list[i].data) \in 1..holder_msg_size
           /\ tx_list[i].offset + Len(tx_list[i].data) <= Len(holder_msg)
           /\ i < Len(tx_list) => Len(tx_list[i].data) = holder_msg_size
           /\ tx_list[i].data = SubSeq(holder_msg, tx_list[i].offset + 1,
                                       tx_list[i].offset + Len(tx_list[i].data))
    /\ Len(holder_msg) = 0 => Len(tx_list) = 0
    /\ Len(holder_msg) > 0 =>
           /\ Len(tx_list) > 0
           /\ tx_list[Len(tx_list)].offset + Len(tx_list[Len(tx_list)].data) = Len(holder_msg)

\* the HolderWrite txs of h are all on the chain
AllWritten(h) == h.pc = "send" /\ h.tx_list = {}

\* C23: the HolderWrite txs built for a holder_msg carry chunks of at most
\* 900 bytes at the offsets 0, 900, 1800, ... that are disjoint and cover the
\* message once; once they are all on the chain, in whatever order, the
\* holder holds holder_msg; for a stuck tx and for a tx whose HolderWrite txs
\* were sent no HolderWrite tx is built.
C23_HolderWriteChunks ==
    /\ ChunksCover(WriteTxs(holder), HolderMsg(holder.holder_msg))
    /\ AllWritten(holder) => holder.data = HolderMsg(holder.holder_msg)
    /\ holder.is_stuck_tx \/ holder.has_sol_tx => build_tx_list(holder) = <<>>
    /\ ~holder.is_stuck_tx /\ ~holder.has_sol_tx => build_tx_list(holder) = <<WriteTxs(holder)>>

\* three chunks, the last one short, are on the chain, a later one before an
\* earlier one
C23_Witness ==
    /\ AllWritten(holder)
    /\ Len(holder.written) = MaxHolderWrite
    /\ holder.written[1] > holder.written[2]
    /\ holder.holder_msg % holder_msg_size = 1
    /\ holder.data = HolderMsg(holder.holder_msg)

\* ---- C24
\* C24: in live mode the persisted finalized cursor is advanced only in the
\* transaction of a submit_block_list, which stores the new blocks of the
\* batch, and after the submit_block_list of a batch whose last block is
\* finalized the persisted cursor is at least the slot of that block, also
\* for a batch of new blocks only.
CursorInTx ==
    indexer_db'.constants_db.finalized_block_slot # indexer_db.constants_db.finalized_block_slot
        => /\ IndexerDBSubmitBlockList
           /\ indexer_db'.submitted.last_slot \in indexer_db'.sol_blocks_db

CursorAtLastBlock ==
    /\ ~indexer_db.is_reindexing
    /\ indexer_db.submitted.last_slot > 0
    /\ indexer_db.submitted.is_finalized
    => indexer_db.constants_db.finalized_block_slot >= indexer_db.submitted.last_slot

C24_FinalizedCursor == []CursorAtLastBlock /\ [][CursorInTx]_vars

\* ---- C25
\* C25: the loop of the indexer makes progress.  In live mode it never
\* exits, and when the finalized slot of the chain is past the last
\* processed slot, the blocks up to that slot are processed in the end; in
\* reindex mode the loop goes on while the last processed slot is below
\* stop_slot, and it exits once stop_slot <= the last processed slot.
LiveNeverExits == ~indexer.is_reindexing => indexer.pc # "done"

ReindexGoesOn ==
    indexer.is_reindexing /\ indexer.last_processed_slot < indexer.stop_slot
        => indexer.pc # "done"

LiveProcesses ==
    \A s \in 1..MaxSlot :
        (~indexer.is_reindexing /\ indexer.sol_finalized = s /\ indexer.last_processed_slot < s)
            ~> (indexer.last_processed_slot >= s)

ReindexExits ==
    (indexer.is_reindexing /\ indexer.stop_slot <= indexer.last_processed_slot)
        ~> (indexer.pc = "done")

C25_IndexerProgress ==
    /\ []LiveNeverExits
    /\ []ReindexGoesOn
    /\ LiveProcesses
    /\ ReindexExits

\* ---- C26
\* C26: after the reindex ranges were selected on startup, the number of
\* ranges, those loaded from persistence and the new ones together, is at
\* most reindex_max_range_cnt, for every number of loaded ranges and every
\* reindex_start_slot < start_slot.
C26_ReindexRangeCnt ==
    indexer_app.is_added /\ indexer_app.reindex_start_slot < indexer_app.start_slot
        => Len(indexer_app.db_list) <= indexer_app.reindex_max_range_cnt

\* ---- C27
\* C27: a request to the chain that keeps failing with a connection or
\* timeout error (a RequestException) is retried at most retry_on_fail
\* times, with a pause of 1 s before each retry, and then raises
\* SolanaUnavailableError; a request that succeeds on any attempt returns
\* its response; any other exception is raised at once, without retry.
PostRetried(sol) ==
    /\ Len(sol.log) <= sol.retry_on_fail + 1
    /\ \A i \in 1..(Len(sol.log) - 1) : sol.log[i] \in RequestException
    /\ sol.pc = "post" /\ sol.log # <<>> => sol.log[Len(sol.log)] \in RequestException

PostPaused(sol) ==
    LET attempts == Len(sol.log) + (IF sol.pc = "post" THEN 1 ELSE 0)
    IN  sol.pause = 2..attempts /\ sol.slept = Cardinality(sol.pause)

PostRaised(sol) ==
    sol.pc = "idle" /\ sol.log # <<>> =>
        LET last == sol.log[Len(sol.log)]
        IN  /\ last = "Response" => sol.result = "Response"
            /\ last \in RequestException =>
                   sol.result = "SolanaUnavailableError" /\ Len(sol.log) = sol.retry_on_fail + 1
            /\ last \notin RequestException \cup {"Response"} => sol.result = last

C27_SendPostRequestRetries == PostRetried(solana) /\ PostPaused(solana) /\ PostRaised(solana)

C27_Witness ==
    /\ solana.retry_on_fail = 2
    /\ solana.result = "SolanaUnavailableError"
    /\ solana.log = <<"ConnectionError", "Timeout", "ConnectionError">>
    /\ solana.slept = 2

\* ---- C28
\* C28: the batched account read returns a list with exactly one entry per
\* pubkey of the input, in the order of the input, with None at the
\* positions of the accounts that could not be read, and its requests hold
\* at most 50 pubkeys each, for every length of the input and every outcome
\* (value, missing account, error) of the request of each chunk.
Unreadable(call, pubkey) ==
    LET chunk == (pubkey - 1) \div account_chunk_size + 1
        n == Min(account_chunk_size, call.src_len - (chunk - 1) * account_chunk_size)
    IN  \/ call.rpc[chunk] = "error"
        \/ IsMissing(call.rpc[chunk], ((pubkey - 1) % account_chunk_size) + 1, n)

OneEntryPerPubkey(call) ==
    /\ Len(call.account_info_list) = call.src_len
    /\ \A pubkey \in 1..Len(call.account_info_list) :
           call.account_info_list[pubkey] =
               IF Unreadable(call, pubkey) THEN None ELSE decode_account_info(pubkey)

RequestsOfAtMost50(call) ==
    \A i \in 1..Len(call.request_list) : call.request_list[i] <= account_chunk_size

C28_AccountInfoList ==
    account_info.pc = "done" /\ account_info.exc = ""
        => OneEntryPerPubkey(account_info) /\ RequestsOfAtMost50(account_info)

\* ---- C29
\* C29: for each chain, the min_executable_gas_price pushed to the mempool
\* after a gas price refresh is the minimum of the last N positive
\* min_executable_gas_price observations of that chain, N the window length
\* of the task; observations of other chains never enter it.
PositiveObserved(loop, chain_id) == SelectSeq(loop.observed[chain_id], LAMBDA p : p > 0)

LastN(list, n) == SubSeq(list, Max(1, Len(list) - n + 1), Len(list))

MinOfWindow(loop, token) ==
    PositiveObserved(loop, token.chain_id) # <<>> =>
        token.min_executable_gas_price =
            SeqMin(LastN(PositiveObserved(loop, token.chain_id),
                         loop.min_executable_gas_prices_count))

OwnChainOnly(loop, token) ==
    \E i \in 1..Len(loop.observed[token.chain_id]) :
        loop.observed[token.chain_id][i] = token.min_executable_gas_price

C29_MinExecutableGasPrice ==
    \A i \in 1..Len(gas_price.token_list) :
        /\ MinOfWindow(gas_price, gas_price.token_list[i])
        /\ OwnChainOnly(gas_price, gas_price.token_list[i])

\* the last known slot k of a call, 0 when there is none
KnownSlot(call) == IF call.last_known_slot = None THEN 0 ELSE call.last_known_slot

\* the start slot of a call whose setting is CONTINUE, LATEST or no integer
NamedStartSlot(call) ==
    /\ call.start_slot = <<"CONTINUE">> =>
           call.result = IF KnownSlot(call) > 0 THEN KnownSlot(call) ELSE call.latest_slot
    /\ call.start_slot = <<"LATEST">> => call.result = call.latest_slot
    /\ call.start_slot \notin StartSlotNames /\ ~int(call.start_slot).ok =>
           call.result = KnownSlot(call)

\* an integer n gives min(n, L), but k when n is below k
IntStartSlot(call) ==
    int(call.start_slot).ok =>
        call.result = IF int(call.start_slot).value < KnownSlot(call)
                      THEN KnownSlot(call)
                      ELSE Min(int(call.start_slot).value, call.latest_slot)

\* an integer n gives min(n, L), but k when min(n, L) is below k
IntStartSlotCapped(call) ==
    int(call.start_slot).ok =>
        call.result = IF Min(int(call.start_slot).value, call.latest_slot) < KnownSlot(call)
                      THEN KnownSlot(call)
                      ELSE Min(int(call.start_slot).value, call.latest_slot)

\* C30: the initial cursor from the start_slot setting, the last known slot k
\* and the latest finalized slot L: CONTINUE gives k when a last known slot
\* exists and L otherwise; LATEST gives L; an integer n gives min(n, L), but k
\* when min(n, L) is below k; any other value gives k
C30_StartSlotFromConfig ==
    indexer_base.pc = "done" =>
        NamedStartSlot(indexer_base) /\ IntStartSlotCapped(indexer_base)

\* C30 as stated: an integer n gives min(n, L), but k when n is below k
C30_StartSlotAsStated ==
    indexer_base.pc = "done" =>
        NamedStartSlot(indexer_base) /\ IntStartSlot(indexer_base)

\* the setting 12 with the chain at slot 2 behind the last known slot 3
C30_Witness ==
    /\ indexer_base.pc = "done"
    /\ indexer_base.start_slot = <<"1", "2">>
    /\ indexer_base.latest_slot = 2
    /\ indexer_base.last_known_slot = 3
    /\ indexer_base.result = 3

\* no address was put into airdrop_scheduled twice
ScheduledOnce == \A a \in Addresses : gas_tank.scheduled_cnt[a] <= 1

\* no address that has received its allowance is scheduled
ReadyNotScheduled ==
    \A a \in Addresses :
        gas_tank.airdropped[a] > 0 \/ is_airdrop_ready(gas_tank, a) =>
            a \notin gas_tank.airdrop_scheduled

\* the faucet has served no address twice
AirdroppedOnce == \A a \in Addresses : gas_tank.airdropped[a] <= 1

\* C31: a gas-less allowance is given to an address at most once: over any
\* sequence of allow_gas_less_tx and process_scheduled_trxs calls no address
\* is scheduled twice, no address that received the allowance is scheduled,
\* and no address receives the allowance twice
C31_AllowanceOnce == ScheduledOnce /\ ReadyNotScheduled /\ AirdroppedOnce

\* ---- C32
\* the txs of the pool of s with a nonce below that of tx
LowerTxs(s, tx) == {u \in PoolTxs(Pool(s)) : u.nonce < tx.nonce}

IsPending(tx) == InQueue(tx_gas_price_queue, tx)
IsGapped(tx) == InQueue(tx_gapped_gas_price_queue, tx)

C33_PoolGasPrice ==
    \A s \in Pools :
        Len(Pool(s).q) > 0 => Pool(s).gas_price = top_tx(Pool(s)).gas_price

\* ---- C34
\* the step txs of the first batch, once it is built
FullTxListLen == Len(iterative.tx_list)

\* emulated_step_cnt / evm_step_min rounded up
StepIterations(it) ==
    (it.emulated_evm_step_cnt + it.evm_step_cnt - 1) \div it.evm_step_cnt

\* C34: the number of step txs built for the first batch of the iterative
\* strategy is max(emulated_step_cnt / evm_step_min rounded up, 1) +
\* resize_iter_cnt + 2, for every emulated step count and every resize
\* iteration count
C34_FullTxListLen ==
    iterative.pc = "complete" =>
        FullTxListLen = Max(StepIterations(iterative), 1) + iterative.resize_iter_cnt + 2

\* C34 as stated: the number is max(emulated_step_cnt / evm_step_min, 1) +
\* resize_iter_cnt + 2, with the quotient of the division
C34_FullTxListLenAsStated ==
    iterative.pc = "complete" =>
        FullTxListLen =
            Max(iterative.emulated_evm_step_cnt \div iterative.evm_step_cnt, 1)
                + iterative.resize_iter_cnt + 2

\* 7 emulated steps in iterations of 3 with 1 resize iteration: 3 + 1 + 2 txs
C34_Witness ==
    /\ iterative.pc = "complete"
    /\ iterative.evm_step_cnt = 3
    /\ iterative.emulated_evm_step_cnt = 7
    /\ iterative.resize_iter_cnt = 1
    /\ FullTxListLen = 6

\* ---- C35
OwnSet(d) == StuckKeys(d.own_tx_dict)
ExternalSet(d) == StuckKeys(d.external_tx_dict)
ProcessedSet(d) == StuckKeys(d.processed_tx_dict)

\* the own, external and processing sets are pairwise disjoint
StuckDisjoint(d) ==
    /\ OwnSet(d) \cap ExternalSet(d) = {}
    /\ OwnSet(d) \cap ProcessedSet(d) = {}
    /\ ExternalSet(d) \cap ProcessedSet(d) = {}

\* a poll replaces the external set with exactly the reported txs that are
\* neither own, nor processing, nor completed
PollReplacesExternal(d) ==
    \A completed_tx_dict \in SUBSET StuckSigs, stuck_tx_list \in StuckTxLists :
        LET after == add_external_tx_list(d, completed_tx_dict, stuck_tx_list)
        IN  /\ ExternalSet(after) =
                   StuckKeys(stuck_tx_list)
                       \ (OwnSet(d) \cup ProcessedSet(d) \cup completed_tx_dict)
            /\ OwnSet(after) = OwnSet(d)
            /\ ProcessedSet(after) = ProcessedSet(d)

\* registering an own stuck tx removes it from the external set
OwnLeavesExternal(d) ==
    \A completed_tx_dict \in SUBSET StuckSigs, neon_sig \in StuckSigs :
        LET after == add_own_tx(d, completed_tx_dict, neon_sig)
        IN  neon_sig \in OwnSet(after) => neon_sig \notin ExternalSet(after)

\* C35: in every reachable state of the stuck-tx dictionary the own,
\* external and processing sets are pairwise disjoint; a poll replaces the
\* external set with exactly the reported txs that are neither own, nor
\* processing, nor completed; registering an own stuck tx removes it from
\* the external set; peek_tx never returns a tx acquired for processing
C35_StuckTxDict ==
    /\ StuckDisjoint(stuck_tx_dict)
    /\ PollReplacesExternal(stuck_tx_dict)
    /\ OwnLeavesExternal(stuck_tx_dict)
    /\ Stuck_peek_tx(stuck_tx_dict) \notin ProcessedSet(stuck_tx_dict)

\* tx 1 is acquired, tx 2 is own and peeked, tx 3 is external
C35_Witness ==
    /\ ProcessedSet(stuck_tx_dict) = {1}
    /\ OwnSet(stuck_tx_dict) = {2}
    /\ ExternalSet(stuck_tx_dict) = {3}
    /\ Stuck_peek_tx(stuck_tx_dict) = 2

\* ---- C36
\* the top tx of every Queued sender pool is in the pending gas-price queue
QueuedTopPending ==
    \A s \in Pools : Pool(s).state = Queued =>
        /\ Len(Pool(s).q) > 0
        /\ IsPending(top_tx(Pool(s)))

\* acquire_tx(peek_top_tx()) fails no assertion
AcquireTopSucceeds ==
    Len(sender_pool_queue) > 0 =>
        /\ ~peek_top_tx_raises(State)
        /\ acquire_tx(State, peek_top_tx(State)).err = ""

\* C36: in every state reachable through add_tx, acquire_tx, done_tx,
\* fail_tx, cancel_tx, set_sender_state_tx_cnt, drop_stuck_tx and eviction,
\* also with an exec-config state_tx_cnt above the counter of the pool, the
\* top tx of every Queued sender pool is in the pending gas-price queue and
\* acquire_tx(peek_top_tx()) fails no internal assertion
C36_QueuedTopPending == QueuedTopPending /\ AcquireTopSucceeds

\* ---- C37
IsProcessingTx(tx) == tx.sender \in Pools /\ Pool(tx.sender).processing_tx = tx

\* tx is in exactly one of the three places
InOnePlace(tx) ==
    /\ IsProcessingTx(tx) \/ IsPending(tx) \/ IsGapped(tx)
    /\ ~(IsProcessingTx(tx) /\ IsPending(tx))
    /\ ~(IsProcessingTx(tx) /\ IsGapped(tx))
    /\ ~(IsPending(tx) /\ IsGapped(tx))

\* tx belongs to the gap-free run of its pool that starts at state_tx_cnt
InGapFreeRun(tx) ==
    /\ tx.sender \in Pools
    /\ tx \in PoolTxs(Pool(tx.sender))
    /\ \A n \in Pool(tx.sender).state_tx_cnt..tx.nonce :
           \E u \in PoolTxs(Pool(tx.sender)) : u.nonce = n

\* C37: each tx in the hash index is in exactly one of three places: marked
\* as processing in its sender pool, in the pending gas-price queue, or in the
\* gapped gas-price queue; the pending txs of a sender are exactly the txs of
\* the gap-free run from the state_tx_cnt of the pool that are not
\* processing, and every other tx that is not processing is gapped
C37_PendingIsGapFreeRun ==
    \A tx \in tx_hash_dict :
        /\ InOnePlace(tx)
        /\ IsPending(tx) <=> (InGapFreeRun(tx) /\ ~IsProcessingTx(tx))

\* ---- C38
\* the persisted cursors of the constants table
PersistedCursors(db) ==
    <<db.constants_db.finalized_block_slot, db.constants_db.latest_block_slot,
      db.constants_db.min_receipt_block_slot>>

\* no persisted cursor decreases in a step
CursorsNeverDecrease ==
    \A i \in 1..3 : PersistedCursors(db_conn'.db)[i] >= PersistedCursors(db_conn.db)[i]

\* the persisted finalized slot is not above the persisted latest slot
FinalizedNotAboveLatest ==
    db_conn.db.constants_db.finalized_block_slot <= db_conn.db.constants_db.latest_block_slot

\* C38: over any sequence of batch submissions by the live indexer, the
\* persisted cursors finalized slot, latest slot and min used slot never
\* decrease, and the finalized slot is never greater than the latest slot
C38_PersistedCursors ==
    /\ [][CursorsNeverDecrease]_vars
    /\ [](~db_conn.db.is_reindexing => FinalizedNotAboveLatest)

\* ---- C39
\* no block is marked done without its rows in the committed tables
DoneBlocksAreStored ==
    \A s \in Slots : db_conn.db.neon_block[s].is_done => s \in db_conn.db.sol_blocks_db

\* the cursors in memory are the committed ones
MemoryCursorsAreCommitted ==
    <<db_conn.db.finalized_slot, db_conn.db.latest_slot, db_conn.db.min_used_slot>>
        = PersistedCursors(db_conn.db)

\* a retry that commits stores every block of its batch and its cursors
RetryStoresBatch ==
    (db_conn.in_run_tx /\ ~db_conn'.in_run_tx) =>
        LET neon_block_queue == db_conn.action.neon_block_queue
        IN  /\ \A i \in 1..Len(neon_block_queue) :
                   neon_block_queue[i] \in db_conn'.db.sol_blocks_db
            /\ db_conn'.db.constants_db.min_receipt_block_slot >= db_conn.action.min_used_slot
            /\ ~db_conn.db.is_reindexing =>
                   db_conn'.db.constants_db.latest_block_slot
                       >= neon_block_queue[Len(neon_block_queue)]

\* C39: persisting a batch is atomic also under failure: when the transaction
\* of a batch fails with a connection error after part of it has run and is
\* retried, the retry that succeeds stores every block of the batch and its
\* cursors; no block is left marked done and no cursor in memory is left
\* advanced by an attempt that did not commit
C39_AtomicUnderFailure ==
    /\ [](DoneBlocksAreStored /\ MemoryCursorsAreCommitted)
    /\ [][RetryStoresBatch]_vars

\* ---- C40
\* the reconnect attempts that are scheduled (a started Timer) or running (a
\* Timer thread in the try block of _connect_mp); a thread in the except
\* or finally branch has made its attempt
ReconnectAttempts == {t \in TimerThreads : mp_client.thread[t] \in {"timer", "connect"}}

OneReconnectAttempt == Cardinality(ReconnectAttempts) <= 1

\* a further attempt is scheduled: a Timer is started and has not yet run
AttemptScheduled == \E t \in TimerThreads : mp_client.thread[t] = "timer"

\* after a failed connection attempt a further attempt is eventually
\* scheduled, unless a connection succeeds
FailedAttemptRescheduled ==
    mp_client.connect_failed ~> (AttemptScheduled \/ ~mp_client.connect_failed)

\* C40: in the mempool client, under any interleaving of request threads and
\* reconnect-timer threads, at most one reconnect attempt is scheduled or
\* running at any time, and after a failed connection attempt a further
\* attempt is always eventually scheduled until a connection succeeds
C40_OneReconnectAttempt ==
    /\ []OneReconnectAttempt
    /\ FailedAttemptRescheduled

====
